---- MODULE Spec2Model ----
(***************************************************************************)
(* DirHash (src/DirHash.cpp): directory hashing, checksum manifests        *)
(* (-sum), verification (-verify), the worker pool and the output          *)
(* serialiser.                                                             *)
(*                                                                         *)
(* Text is a sequence of one-character strings; a text file is a sequence  *)
(* of lines (fgetws splits at '\n', the writers end every line with '\n'). *)
(* A byte array is a sequence of numbers 0..255.                           *)
(***************************************************************************)
EXTENDS Integers, Sequences, FiniteSets, TLC

(***************************************************************************)
(* Characters                                                              *)
(***************************************************************************)

\* The characters of the model in the order of their code units: those of
\* the code units 32 to 95, then the small letters, 97 to 122.
Alphabet == <<" ", "!", "\"", "#", "$", "%", "&", "'", "(", ")", "*", "+", ",", "-", ".", "/", "0", "1", "2", "3", "4", "5", "6", "7", "8", "9", ":", ";", "<", "=", ">", "?", "@", "A", "B", "C", "D", "E", "F", "G", "H", "I", "J", "K", "L", "M", "N", "O", "P", "Q", "R", "S", "T", "U", "V", "W", "X", "Y", "Z", "[", "\\", "]", "^", "_", "a", "b", "c", "d", "e", "f", "g", "h", "i", "j", "k", "l", "m", "n", "o", "p", "q", "r", "s", "t", "u", "v", "w", "x", "y", "z">>

\* The code unit of the character at a place of the alphabet.
CodeAt(i) == IF i <= 64 THEN i + 31 ELSE i + 32

\* The code unit of each character of an alphabet.
CodeOf(al) == [c \in {al[i] : i \in DOMAIN al} |-> CodeAt(CHOOSE i \in DOMAIN al : al[i] = c)]

\* The code unit of a character.
Code == CodeOf(Alphabet)

\* towlower on a code unit, as _wcsicmp and _tcsicmp apply it.
towlower(k) == IF k >= 65 /\ k <= 90 THEN k + 32 ELSE k

BS == "\\"

SP == " "

(***************************************************************************)
(* Text helpers                                                            *)
(***************************************************************************)

RECURSIVE Flatten(_)
Flatten(ss) == IF ss = <<>> THEN <<>> ELSE Head(ss) \o Flatten(Tail(ss))

\* wcschr: the index of the first c in s at or after from, 0 when there is none.
IndexFrom(s, c, from) == IF \E i \in from..Len(s) : s[i] = c THEN CHOOSE i \in from..Len(s) : s[i] = c /\ \A j \in from..(i - 1) : s[j] # c ELSE 0

\* The text from index i to the end (a pointer into a NUL-terminated string).
From(s, i) == SubSeq(s, i, Len(s))

\* wcsstr(ptr, p) == ptr
StartsWith(s, p) == Len(s) >= Len(p) /\ SubSeq(s, 1, Len(p)) = p

\* std::replace(begin, end, '/', '\\')
ReplaceSlash(s) == [i \in DOMAIN s |-> IF s[i] = "/" THEN BS ELSE s[i]]

\* The code units of a text.
Codes(t) == [i \in DOMAIN t |-> Code[t[i]]]

\* The lower-cased code units of a text.
LowerCodes(t) == [i \in DOMAIN t |-> towlower(Code[t[i]])]

\* The comparison of two sequences of code units, unit by unit, the shorter
\* first when it is a prefix: -1, 0 or 1.
RECURSIVE CompareCodes(_, _)
CompareCodes(x, y) == IF x = <<>> /\ y = <<>> THEN 0 ELSE IF x = <<>> THEN -1 ELSE IF y = <<>> THEN 1 ELSE IF Head(x) < Head(y) THEN -1 ELSE IF Head(x) > Head(y) THEN 1 ELSE CompareCodes(Tail(x), Tail(y))

\* _wcsicmp: -1, 0 or 1, comparing the lower-cased code units.
wcsicmp(a, b) == CompareCodes(LowerCodes(a), LowerCodes(b))

\* wstring::operator<, the order of the keys of a std::map<wstring, ...>.
wstringLess(a, b) == CompareCodes(Codes(a), Codes(b)) < 0

\* A comparison that tells capitals from small letters: the order of the
\* directory content that C8 must tell from the one of compare_nocase.
compare_case(first, second) == wstringLess(first, second)

\* Used for sorting directory content.
compare_nocase(first, second) == wcsicmp(first, second) < 0

\* The set of the elements of a sequence.
Range(s) == {s[i] : i \in DOMAIN s}

\* The keys of a std::map in iteration order.
RECURSIVE MapOrder(_)
MapOrder(S) == IF S = {} THEN <<>> ELSE LET First(m) == <<m>> \o MapOrder(S \ {m}) IN First(CHOOSE x \in S : \A y \in S \ {x} : wstringLess(x, y))

(***************************************************************************)
(* Hexadecimal text                                                        *)
(***************************************************************************)

HexCapitals == <<"0", "1", "2", "3", "4", "5", "6", "7", "8", "9", "A", "B", "C", "D", "E", "F">>

HexSmalls == <<"0", "1", "2", "3", "4", "5", "6", "7", "8", "9", "a", "b", "c", "d", "e", "f">>

\* TCHAR ToHex(unsigned char b) for b < 16, with g_bLowerCase as lower.
ToHexChar(b, lower) == IF lower THEN HexSmalls[b + 1] ELSE HexCapitals[b + 1]

\* void ToHex(LPBYTE pbData, int iLen, LPTSTR szHex)
ToHex(data, lower) == [i \in 1..(2 * Len(data)) |-> ToHexChar(IF i % 2 = 1 THEN data[(i + 1) \div 2] \div 16 ELSE data[i \div 2] % 16, lower)]

\* bool FromHex(TCHAR c, unsigned char& b) on a code unit: the value, or -1
\* for false.
FromHexCode(k) == IF k >= 48 /\ k <= 57 THEN k - 48 ELSE IF k >= 97 /\ k <= 102 THEN 10 + (k - 97) ELSE IF k >= 65 /\ k <= 70 THEN 10 + (k - 65) ELSE -1

\* bool FromHex(const TCHAR* szHex, ByteArray& buffer)
FromHex(szHex) == LET Pack(v) == IF Len(v) % 2 = 0 /\ \A i \in DOMAIN v : v[i] >= 0 THEN [ok |-> TRUE, buffer |-> [i \in 1..(Len(v) \div 2) |-> v[2 * i - 1] * 16 + v[2 * i]]] ELSE [ok |-> FALSE, buffer |-> <<>>] IN Pack([i \in DOMAIN szHex |-> FromHexCode(Code[szHex[i]])])

(***************************************************************************)
(* Hash engines.  The primitives themselves (CNG, BLAKE2, BLAKE3,          *)
(* Streebog) are outside the repository: an engine is its identifier and   *)
(* the bytes it was fed, and its digest is a fixed function of the two     *)
(* that has the algorithm's digest size and tells apart the algorithms,    *)
(* the lengths and, up to the digest size less two, the bytes fed.         *)
(***************************************************************************)

IdMD5 == <<"M", "D", "5">>

IdSHA1 == <<"S", "H", "A", "1">>

IdSHA256 == <<"S", "H", "A", "2", "5", "6">>

IdSHA384 == <<"S", "H", "A", "3", "8", "4">>

IdSHA512 == <<"S", "H", "A", "5", "1", "2">>

IdStreebog == <<"S", "t", "r", "e", "e", "b", "o", "g">>

IdBlake2s == <<"B", "l", "a", "k", "e", "2", "s">>

IdBlake2b == <<"B", "l", "a", "k", "e", "2", "b">>

IdBlake3 == <<"B", "l", "a", "k", "e", "3">>

\* Hash::GetSupportedHashIds
GetSupportedHashIds == <<IdMD5, IdSHA1, IdSHA256, IdSHA384, IdSHA512, IdStreebog, IdBlake2s, IdBlake2b, IdBlake3>>

\* GetHashSize of the engine classes, in the order of GetSupportedHashIds.
HashSizes == <<16, 20, 32, 48, 64, 64, 32, 64, 32>>

\* The place in GetSupportedHashIds of the identifier that matches without
\* regard to case (_wcsicmp), 0 when none does.
HashIndex(szHashId) == LET In(ids) == IF \E i \in DOMAIN ids : wcsicmp(szHashId, ids[i]) = 0 THEN CHOOSE i \in DOMAIN ids : wcsicmp(szHashId, ids[i]) = 0 ELSE 0 IN In(GetSupportedHashIds)

\* Hash::IsHashId
IsHashId(szHashId) == HashIndex(szHashId) # 0

\* Hash::IsHashSize
IsHashSize(size) == size \in {16, 20, 32, 48, 64}

\* An engine: the place of its class, its identifier, the bytes it was fed.
NoHash == [tag |-> 0, id |-> <<>>, fed |-> <<>>]

\* Hash::GetHash: a new engine of the class whose identifier matches (the
\* build defines USE_STREEBOG), NoHash for NULL.
GetHash(szHashId) == LET New(i) == IF i = 0 THEN NoHash ELSE [tag |-> i, id |-> GetSupportedHashIds[i], fed |-> <<>>] IN New(HashIndex(szHashId))

\* GetHashSize of an engine.
GetHashSize(h) == HashSizes[h.tag]

\* A Clone that copies the state of the engine: what C29 must tell from
\* Clone.
CloneState(h) == h

\* Hash::Clone: return GetHash(GetID()), a new engine that was fed nothing.
Clone(h) == [h EXCEPT !.fed = <<>>]

\* Hash::Update
Update(h, pbData) == [h EXCEPT !.fed = @ \o pbData]

\* The sum of the bytes of fed at the places k, k + m, k + 2m, ...
RECURSIVE FoldBytes(_, _, _)
FoldBytes(fed, k, m) == IF k > Len(fed) THEN 0 ELSE fed[k] + FoldBytes(fed, k + m, m)

\* Hash::Final: the digest of the bytes fed so far.
Final(h) == LET Digest(n) == [i \in 1..n |-> IF i = 1 THEN h.tag ELSE IF i = 2 THEN Len(h.fed) % 256 ELSE FoldBytes(h.fed, i - 2, n - 2) % 256] IN Digest(GetHashSize(h))

\* CloneHashes
CloneHashes(pHashes) == [i \in DOMAIN pHashes |-> Clone(pHashes[i])]

\* UpdateHashes
UpdateHashes(pHashes, pbBuffer) == [i \in DOMAIN pHashes |-> Update(pHashes[i], pbBuffer)]

\* The bytes of a text as the engines receive them: (LPCBYTE) pNameToHash,
\* _tcslen(pNameToHash) * sizeof(TCHAR), UTF-16 little-endian.
NameBytes(t) == [i \in 1..(2 * Len(t)) |-> IF i % 2 = 1 THEN Code[t[(i + 1) \div 2]] ELSE 0]

\* Hash::GetHashes: the engines of a comma-separated list, none when a part is
\* no identifier or the text ends with a comma.
RECURSIVE GetHashesFrom(_, _, _)
GetHashesFrom(strHashId, pos, res) == IF pos = Len(strHashId) + 1 THEN res ELSE LET Part(pos2, h) == IF h = NoHash THEN <<>> ELSE IF pos2 = Len(strHashId) + 1 THEN Append(res, h) ELSE IF pos2 = Len(strHashId) THEN <<>> ELSE GetHashesFrom(strHashId, pos2 + 1, Append(res, h)) To(pos2) == Part(pos2, GetHash(SubSeq(strHashId, pos, pos2 - 1))) At(comma) == To(IF comma = 0 THEN Len(strHashId) + 1 ELSE comma) IN At(IndexFrom(strHashId, ",", pos))

GetHashes(szHashId) == GetHashesFrom(szHashId, 1, <<>>)

(***************************************************************************)
(* ParseSumFile, SortSumFile, ParseResultLine, ParseResultFile             *)
(***************************************************************************)

\* HashResultEntry(): m_hashName(L""), m_processed(false)
NewEntry == [m_hashName |-> <<>>, m_digest |-> <<>>, m_processed |-> FALSE]

\* An assignment that leaves the digest of a name the map already has: what
\* C31 must tell from SetDigest.
SetDigestOnce(digestList, name, digest) == IF name \in DOMAIN digestList THEN digestList ELSE (name :> [NewEntry EXCEPT !.m_digest = digest]) @@ digestList

\* map::operator[] followed by an assignment to m_digest.
SetDigest(digestList, name, digest) == IF name \in DOMAIN digestList THEN [digestList EXCEPT ![name].m_digest = digest] ELSE (name :> [NewEntry EXCEPT !.m_digest = digest]) @@ digestList

EmptyMap == [k \in {} |-> NewEntry]

\* while (ptr != &szLine[l - 1] && *ptr == L' ') ptr++;  (szLine[l] is the NUL)
RECURSIVE SkipSpaces(_, _)
SkipSpaces(szLine, ptr) == IF ptr # Len(szLine) /\ ptr <= Len(szLine) /\ szLine[ptr] = SP THEN SkipSpaces(szLine, ptr + 1) ELSE ptr

\* if (ptr != &szLine[l - 1] && *ptr == L'*') ptr++;
SkipStar(szLine, ptr) == IF ptr # Len(szLine) /\ ptr <= Len(szLine) /\ szLine[ptr] = "*" THEN ptr + 1 ELSE ptr

\* The place where the path of a checksum line starts, given the place sp of
\* its first space (0 when it has none); from the wcschr to the second
\* "remove '*'" test of ParseSumFile.
PathStart(szLine, sp) == IF sp = 0 THEN 0 ELSE SkipStar(szLine, SkipSpaces(szLine, sp + 1))

\* if (ptr != &szLine[l - 1]): the line is taken further only when the path
\* does not start at the last character of the line.
PathStartAccepted(szLine, ptr) == ptr # Len(szLine)

\* The entry name of an accepted line: '/' replaced by '\', and the input
\* directory put in front when normalizePath is set and the name does not
\* start with it (_wcsicmp).
EntryName(szLine, ptr, normalizePath, inputDirPath) == LET Normal(entryName, n) == IF normalizePath /\ n # 0 /\ (Len(entryName) < n \/ wcsicmp(inputDirPath, SubSeq(entryName, 1, n)) # 0) THEN inputDirPath \o entryName ELSE entryName IN Normal(ReplaceSlash(From(szLine, ptr)), Len(inputDirPath))

\* A line of ParseSumFile that is taken whenever its digest has one of the
\* sizes, whatever the size of the lines before: what C30 must tell from
\* ParseSumLine.
ParseSumLineAnySize(szLine, digestLen, normalizePath, inputDirPath) == LET Parts(sp, ptr, digest) == IF sp # 0 /\ PathStartAccepted(szLine, ptr) /\ digest.ok /\ IsHashSize(Len(digest.buffer)) THEN [ok |-> TRUE, digest |-> digest.buffer, entryName |-> EntryName(szLine, ptr, normalizePath, inputDirPath)] ELSE [ok |-> FALSE, digest |-> <<>>, entryName |-> <<>>] At(sp) == Parts(sp, PathStart(szLine, sp), FromHex(SubSeq(szLine, 1, sp - 1))) IN At(IndexFrom(szLine, SP, 1))

\* One non-empty line of ParseSumFile: ok is !bFailed.
ParseSumLine(szLine, digestLen, normalizePath, inputDirPath) == LET Parts(sp, ptr, digest) == IF sp # 0 /\ PathStartAccepted(szLine, ptr) /\ digest.ok /\ ((digestLen # 0 /\ digestLen = Len(digest.buffer)) \/ (digestLen = 0 /\ IsHashSize(Len(digest.buffer)))) THEN [ok |-> TRUE, digest |-> digest.buffer, entryName |-> EntryName(szLine, ptr, normalizePath, inputDirPath)] ELSE [ok |-> FALSE, digest |-> <<>>, entryName |-> <<>>] At(sp) == Parts(sp, PathStart(szLine, sp), FromHex(SubSeq(szLine, 1, sp - 1))) IN At(IndexFrom(szLine, SP, 1))

\* The loop of ParseSumFile from line lineNumber on; st holds digestList,
\* digestLen, skippedLines and bFailed.
RECURSIVE ParseSumLines(_, _, _, _, _)
ParseSumLines(lines, lineNumber, st, normalizePath, inputDirPath) == IF lineNumber > Len(lines) \/ st.bFailed THEN st ELSE LET Read(r) == IF r.ok THEN [st EXCEPT !.digestList = SetDigest(@, r.entryName, r.digest), !.digestLen = Len(r.digest)] ELSE IF lineNumber > 1 THEN [st EXCEPT !.skippedLines = Append(@, lineNumber)] ELSE [st EXCEPT !.bFailed = TRUE] IN ParseSumLines(lines, lineNumber + 1, IF lines[lineNumber] = <<>> THEN st ELSE Read(ParseSumLine(lines[lineNumber], st.digestLen, normalizePath, inputDirPath)), normalizePath, inputDirPath)

\* bool ParseSumFile(sumFile, digestList, skippedLines, normalizePath): the
\* file is its lines, absent when it cannot be opened.
ParseSumFile(lines, normalizePath, inputDirPath) == LET Parsed(st) == IF st.bFailed THEN [bRet |-> FALSE, digestList |-> EmptyMap, skippedLines |-> st.skippedLines] ELSE [bRet |-> DOMAIN st.digestList # {}, digestList |-> st.digestList, skippedLines |-> st.skippedLines] IN Parsed(ParseSumLines(lines, 1, [digestList |-> EmptyMap, digestLen |-> 0, skippedLines |-> <<>>, bFailed |-> FALSE], normalizePath, inputDirPath))

\* Helper function to count the depth of directories in a path
countPathDepth(path) == Cardinality({i \in DOMAIN path : path[i] = BS})

\* The comparison SortSumFile sorts with: more directories first, then
\* _wcsicmp.
SumFileLess(a, b) == LET Less(depthA, depthB) == IF depthA # depthB THEN depthA > depthB ELSE wcsicmp(a, b) < 0 IN Less(countPathDepth(a), countPathDepth(b))

RECURSIVE InsertSumEntry(_, _)
InsertSumEntry(x, s) == IF s = <<>> THEN <<x>> ELSE IF SumFileLess(x, Head(s)) THEN <<x>> \o s ELSE <<Head(s)>> \o InsertSumEntry(x, Tail(s))

\* sort(sortedEntries.begin(), sortedEntries.end(), ...) on the entries taken
\* from the map in its order.
RECURSIVE SortSumEntries(_)
SortSumEntries(keys) == IF keys = <<>> THEN <<>> ELSE InsertSumEntry(keys[Len(keys)], SortSumEntries(SubSeq(keys, 1, Len(keys) - 1)))

\* The line SortSumFile writes for an entry.
SumLine(digest, path, lower) == ToHex(digest, lower) \o <<SP, SP>> \o path

\* bool SortSumFile(sumFile, fTarget): the lines it writes, in order, when the
\* parse succeeds.
SortSumFile(lines, lower) == LET Lines(digestList, sorted) == [i \in DOMAIN sorted |-> SumLine(digestList[sorted[i]].m_digest, sorted[i], lower)] Sorted(r) == [bRet |-> r.bRet, out |-> IF r.bRet THEN Lines(r.digestList, SortSumEntries(MapOrder(DOMAIN r.digestList))) ELSE <<>>] IN Sorted(ParseSumFile(lines, FALSE, <<>>))

HashOfText == <<"h", "a", "s", "h", " ", "o", "f", " ", "\"">>

BytesEqText == <<"b", "y", "t", "e", "s", ")", " ", "=", " ">>

\* swscanf(ptr, L"%2d", &hashLen) on a text of two characters: the number of
\* two digits, -1 for anything else (no digest size has one digit).
Scan2d(t) == LET Number(v) == IF Len(v) = 2 /\ v[1] \in 0..9 /\ v[2] \in 0..9 THEN 10 * v[1] + v[2] ELSE -1 IN Number([i \in DOMAIN t |-> Code[t[i]] - 48])

NoResult == [bRet |-> FALSE, targetName |-> <<>>, hashName |-> <<>>, digestValue |-> <<>>]

\* The named form of ParseResultLine: hashName hash of "XXXX" (DD bytes) = XX..XX
\* with sp the first space, q the closing quote, sp2 the space after the size.
ParseNamedLine(szLine) ==
  LET Named(sp, pHash, q, sp2, hashLen, hex) ==
        IF /\ sp # 0 /\ pHash # NoHash
           /\ Len(From(szLine, sp + 1)) > 32 /\ StartsWith(From(szLine, sp + 1), HashOfText)
           /\ q # 0 /\ Len(szLine) >= q + 2 /\ szLine[q + 1] = SP /\ szLine[q + 2] = "("
           /\ Len(From(szLine, q + 3)) > 32 /\ sp2 # 0 /\ hashLen = GetHashSize(pHash)
           /\ Len(From(szLine, sp2 + 1)) > 32 /\ StartsWith(From(szLine, sp2 + 1), BytesEqText)
           /\ Len(From(szLine, sp2 + 10)) = 2 * hashLen /\ hex.ok
        THEN [bRet |-> TRUE, targetName |-> SubSeq(szLine, sp + 10, q - 1), hashName |-> pHash.id, digestValue |-> hex.buffer]
        ELSE NoResult
      AtSize(sp, q, sp2) == Named(sp, GetHash(SubSeq(szLine, 1, sp - 1)), q, sp2, Scan2d(SubSeq(szLine, q + 3, sp2 - 1)), FromHex(From(szLine, sp2 + 10)))
      AtQuote(sp, q) == AtSize(sp, q, IndexFrom(szLine, SP, q + 3))
      AtSpace(sp) == AtQuote(sp, IndexFrom(szLine, "\"", sp + 10))
  IN AtSpace(IndexFrom(szLine, SP, 1))

\* bool ParseResultLine(szLine, targetName, hashName, digestValue); prev holds
\* the caller's targetName and hashName, which a bare digest leaves as they are.
ParseResultLine(szLine, prev) == LET Bare(hex) == IF hex.ok THEN (IF IsHashSize(Len(hex.buffer)) THEN [bRet |-> TRUE, targetName |-> prev.targetName, hashName |-> prev.hashName, digestValue |-> hex.buffer] ELSE NoResult) ELSE ParseNamedLine(szLine) IN IF Len(szLine) >= 32 THEN Bare(FromHex(szLine)) ELSE NoResult

\* The loop of ParseResultFile; st holds pathDigestList, rawDigestList, the
\* targetName and hashName of the caller, and bFailed.
RECURSIVE ParseResultLines(_, _, _)
ParseResultLines(lines, n, st) ==
  IF n > Len(lines) \/ st.bFailed THEN st
  ELSE LET Read(r) ==
             IF ~r.bRet THEN [st EXCEPT !.bFailed = TRUE]
             ELSE IF r.targetName # <<>> /\ r.hashName # <<>>
             THEN [st EXCEPT !.pathDigestList = (r.targetName :> [m_hashName |-> r.hashName, m_digest |-> r.digestValue, m_processed |-> IF r.targetName \in DOMAIN @ THEN @[r.targetName].m_processed ELSE FALSE]) @@ @, !.targetName = r.targetName, !.hashName = r.hashName]
             ELSE [st EXCEPT !.rawDigestList = (Len(r.digestValue) :> r.digestValue) @@ @, !.targetName = r.targetName, !.hashName = r.hashName]
       IN ParseResultLines(lines, n + 1, IF lines[n] = <<>> THEN st ELSE Read(ParseResultLine(lines[n], st)))

EmptyRaw == [k \in {} |-> <<>>]

\* bool ParseResultFile(resultFile, pathDigestList, rawDigestList)
ParseResultFile(lines) == LET Parsed(st) == IF st.bFailed \/ (DOMAIN st.pathDigestList = {} /\ DOMAIN st.rawDigestList = {}) THEN [bRet |-> FALSE, pathDigestList |-> EmptyMap, rawDigestList |-> EmptyRaw] ELSE [bRet |-> TRUE, pathDigestList |-> st.pathDigestList, rawDigestList |-> st.rawDigestList] IN Parsed(ParseResultLines(lines, 1, [pathDigestList |-> EmptyMap, rawDigestList |-> EmptyRaw, targetName |-> <<>>, hashName |-> <<>>, bFailed |-> FALSE]))

(***************************************************************************)
(* Paths, the input tree and the directory walk                            *)
(***************************************************************************)

\* LPCWSTR GetFileName(LPCWSTR szPath): the part after the last separator,
\* a trailing separator not counted.
RECURSIVE LastSeparator(_, _)
LastSeparator(szPath, ptr) ==
  IF ptr = 1 \/ szPath[ptr] = BS \/ szPath[ptr] = "/" THEN ptr ELSE LastSeparator(szPath, ptr - 1)

GetFileName(szPath) ==
  IF Len(szPath) <= 1 THEN szPath
  ELSE LET last == Len(szPath)
           from == IF szPath[last] = BS \/ szPath[last] = "/" THEN last - 1 ELSE last
           ptr == LastSeparator(szPath, from)
       IN IF szPath[ptr] = BS \/ szPath[ptr] = "/" THEN From(szPath, ptr + 1) ELSE From(szPath, ptr)

\* g_currentDirectory, the directory relative paths are resolved against.
CurrentDirectory == <<"C", ":", BS>>

\* wstring EnsureAbsolut(LPCWSTR szPath), for the relative paths of the model.
EnsureAbsolut(szPath) == IF szPath = <<>> THEN <<>> ELSE CurrentDirectory \o szPath

\* CPath::AppendName on the displayed path.
AppendName(m_path, szName) == m_path \o <<BS>> \o szName

\* PathMatchSpec for the two forms of pattern the model uses: a star followed
\* by a literal (the name ends with it) and a literal (the name is it),
\* letters compared without case.
PathMatchSpec(szName, spec) ==
  LET Match(star) ==
        /\ star => Len(szName) >= Len(spec) - 1
        /\ wcsicmp(IF star THEN From(szName, Len(szName) - Len(spec) + 2) ELSE szName, IF star THEN Tail(spec) ELSE spec) = 0
  IN Match(spec # <<>> /\ spec[1] = "*")

\* bool IsExcludedName(LPCTSTR szName, bool bIsFile)
IsExcludedName(szName, bIsFile, onlySpecList, excludeSpecList) ==
  LET Matches(list, bOnly) == bOnly # \E i \in DOMAIN list : PathMatchSpec(szName, list[i])
  IN IF bIsFile /\ onlySpecList # <<>> THEN Matches(onlySpecList, TRUE) ELSE Matches(excludeSpecList, FALSE)

\* What FindFirstFile/FindNextFile return for a file and for a directory:
\* the name, the bytes of a file, the entries of a directory in the order of
\* the enumeration.
File(name, data) == [name |-> name, isDir |-> FALSE, data |-> data, kids |-> <<>>]

Dir(name, kids) == [name |-> name, isDir |-> TRUE, data |-> <<>>, kids |-> kids]

\* The directory of a path: what precedes its last separator.
ParentOf(path) == IF \E i \in DOMAIN path : path[i] = BS THEN SubSeq(path, 1, Len(path) - Len(GetFileName(path)) - 1) ELSE <<>>

\* The do/while of HashDirectory over the entries of szDir: CDirContent
\* entry(dirPath, ffd.cFileName, isDir) for the entries of the tree, then for
\* the files the program itself created in that directory (fs: path -> lines).
Enumerate(dirPath, node, fs) ==
  LET Listed(made) ==
        [i \in DOMAIN node.kids |-> [path |-> AppendName(dirPath, node.kids[i].name), node |-> node.kids[i]]]
        \o [i \in DOMAIN made |-> [path |-> made[i], node |-> File(GetFileName(made[i]), <<>>)]]
  IN Listed(MapOrder({p \in DOMAIN fs : ParentOf(p) = dirPath}))

\* "skip file holding checksum": the entry is the verification file (verify)
\* or g_outputFileName (compute). At most one entry has that absolute path,
\* so g_sumFileSkipped, set at the first match, never hides another.
IsSumFile(entry, a, verifying) ==
  LET target == IF verifying THEN a.verificationFileName ELSE a.outputFileName
  IN /\ ~entry.node.isDir
     /\ a.bSumMode \/ verifying
     /\ EnsureAbsolut(target) # <<>>
     /\ wcsicmp(EnsureAbsolut(target), EnsureAbsolut(entry.path)) = 0

\* dirContent.sort(compare_nocase): a stable sort on the displayed paths.
RECURSIVE InsertDirContent(_, _)
InsertDirContent(s, x) ==
  IF s = <<>> THEN <<x>>
  ELSE IF compare_nocase(x.path, Head(s).path) THEN <<x>> \o s
  ELSE <<Head(s)>> \o InsertDirContent(Tail(s), x)

RECURSIVE SortDirContent(_)
SortDirContent(dirContent) ==
  IF dirContent = <<>> THEN <<>>
  ELSE InsertDirContent(SortDirContent(Tail(dirContent)), Head(dirContent))

\* DWORD HashDirectory(...) as the sequence of what the walk comes to, in
\* order: a directory at the place where its name is hashed, a file at the
\* place where HashFile is called for it.
RECURSIVE HashDirectoryWalk(_, _, _, _, _)
HashDirectoryWalk(dirPath, node, fs, a, verifying) ==
  IF IsExcludedName(dirPath, FALSE, a.onlySpecList, a.excludeSpecList) THEN <<>>
  ELSE LET Entry(e) == IF e.node.isDir THEN HashDirectoryWalk(e.path, e.node, fs, a, verifying)
                       ELSE <<[isDir |-> FALSE, path |-> e.path, data |-> e.node.data]>>
           Content(dirContent) == <<[isDir |-> TRUE, path |-> dirPath, data |-> <<>>]>>
                                  \o Flatten([i \in DOMAIN dirContent |-> Entry(dirContent[i])])
       IN Content(SortDirContent(SelectSeq(Enumerate(dirPath, node, fs), LAMBDA e : ~IsSumFile(e, a, verifying))))

(***************************************************************************)
(* The state of a session: the file system, the runs still to be made, and *)
(* the state of the run in progress                                        *)
(***************************************************************************)

VARIABLES
  tree,                \* the input given as argv[1]: a file or a directory
  unreadable,          \* paths on which CreateFileW, ReadFile or FindFirstFile can fail
  files,               \* the files the program wrote: path -> lines
  todo,                \* what the session still does: runs, and edits between them
  past,                \* what each finished run left
  args,                \* the command line of the run in progress
  pc,                  \* where _tmain is
  dwError,
  bSumMode,
  digestsList,
  skippedLines,
  verifyDigest,
  pHashes,             \* addresses of the engines of _tmain's vector
  heap,                \* address -> engine
  walk,                \* what HashDirectory still comes to
  outputFiles,
  g_bMismatchFound,
  g_bFatalError,
  g_bStopThreads,
  g_bStopOutputThread,
  g_threadsCount,
  g_inputDirPath,
  g_bSumRelativePath,
  g_jobsList,
  g_outputsList,
  threads,             \* each ThreadCode: where it is, and its job
  outputThread,        \* where OutputThreadCode is
  events,              \* g_hReadyEvent, g_hStopEvent, g_hOutputReadyEvent, g_hOutputStopEvent
  obs                  \* what the run did: files handed to HashFile, opened, compared

sessionVars == <<tree, unreadable, todo, past>>

mainVars == <<args, bSumMode, skippedLines, verifyDigest, outputFiles, g_inputDirPath, g_bSumRelativePath, g_threadsCount>>

flagVars == <<g_bFatalError, g_bStopThreads, g_bStopOutputThread>>

vars == <<tree, unreadable, files, todo, past, args, pc, dwError, bSumMode, digestsList, skippedLines, verifyDigest, pHashes, heap, walk, outputFiles, g_bMismatchFound, g_bFatalError, g_bStopThreads, g_bStopOutputThread, g_threadsCount, g_inputDirPath, g_bSumRelativePath, g_jobsList, g_outputsList, threads, outputThread, events, obs>>

\* The number of ThreadCode threads StartThreads creates when the machine
\* has several processors.
NWorkers == 2

NoFiles == [p \in {} |-> <<>>]

NoArgs == [input |-> <<>>]

\* outputFiles.push_back(NULL)
NoFile == [name |-> <<>>, shadow |-> <<>>]

NoJob == [filePath |-> <<>>]

\* What is kept of a run for the record: the files there were before it, the
\* files handed to HashFile, those CreateFileW was called for, those compared
\* equal, those the walk came to, whether StartThreads created threads, the
\* digests printed, whether StopThreads freed entries still in a list, how
\* often the lists were released and whether one was used after that, and the
\* files CreateFileW failed to open, the files whose read loop ended before
\* all their bytes were read, the directories FindFirstFile failed on, and
\* the files whose digest ProcessFile found different from the expected one.
NoObs == [before |-> NoFiles, handed |-> {}, opened |-> {}, compared |-> {}, walked |-> {}, started |-> FALSE, stdout |-> <<>>, lost |-> FALSE, freed |-> 0, afterFree |-> FALSE, unopened |-> {}, short |-> {}, unlisted |-> {}, mismatched |-> {}]

\* InterlockedPopEntrySList or InterlockedPushEntrySList on g_jobsList or
\* g_outputsList: a use of memory that _aligned_free has released when
\* FreejobList and FreeOutputList have run before.
Touched(o) == [o EXCEPT !.afterFree = @ \/ o.freed >= 1]

\* FreejobList and FreeOutputList: each pops what is left, then releases the
\* header with _aligned_free and leaves the pointer as it is.
Released(o) == [o EXCEPT !.afterFree = @ \/ o.freed >= 1, !.freed = @ + 1]

NoEvents == [ready |-> FALSE, stop |-> FALSE, outputReady |-> FALSE, outputStop |-> FALSE]

NoThreads == [w \in 1..NWorkers |-> [pc |-> "none", job |-> NoJob]]

ShadowSuffix == <<".", "d", "i", "r", "h", "a", "s", "h", "_", "s", "h", "a", "d", "o", "w">>

\* The state of a process before _tmain has done anything.
Fresh ==
  /\ args = NoArgs /\ pc = "idle" /\ dwError = 0 /\ bSumMode = FALSE
  /\ digestsList = EmptyMap /\ skippedLines = <<>> /\ verifyDigest = <<>>
  /\ pHashes = <<>> /\ heap = <<>> /\ walk = <<>> /\ outputFiles = <<>>
  /\ g_bMismatchFound = FALSE /\ g_bFatalError = FALSE /\ g_bStopThreads = FALSE
  /\ g_bStopOutputThread = FALSE /\ g_threadsCount = 0 /\ g_inputDirPath = <<>>
  /\ g_bSumRelativePath = FALSE /\ g_jobsList = <<>> /\ g_outputsList = <<>>
  /\ threads = NoThreads /\ outputThread = "none" /\ events = NoEvents /\ obs = NoObs

\* return from _tmain with the exit code: the process ends, what it left is
\* kept, and the next process starts from the state of Fresh.
Return(a, code, fs, o, fed) ==
  /\ past' = Append(past, [a |-> a, tree |-> tree, exitCode |-> code, files |-> fs, obs |-> o, fed |-> fed])
  /\ files' = fs
  /\ todo' = Tail(todo)
  /\ UNCHANGED <<tree, unreadable>>
  /\ args' = NoArgs /\ pc' = "idle" /\ dwError' = 0 /\ bSumMode' = FALSE
  /\ digestsList' = EmptyMap /\ skippedLines' = <<>> /\ verifyDigest' = <<>>
  /\ pHashes' = <<>> /\ heap' = <<>> /\ walk' = <<>> /\ outputFiles' = <<>>
  /\ g_bMismatchFound' = FALSE /\ g_bFatalError' = FALSE /\ g_bStopThreads' = FALSE
  /\ g_bStopOutputThread' = FALSE /\ g_threadsCount' = 0 /\ g_inputDirPath' = <<>>
  /\ g_bSumRelativePath' = FALSE /\ g_jobsList' = <<>> /\ g_outputsList' = <<>>
  /\ threads' = NoThreads /\ outputThread' = "none" /\ events' = NoEvents /\ obs' = NoObs

\* The name of the i-th output file (_tmain, "create a new file name by
\* appending the hash algorithm name"), by its displayed path.
OutputName(a, hashes, i) ==
  IF a.bSumMode /\ Len(hashes) > 1 THEN a.outputFileName \o <<".">> \o hashes[i].id ELSE a.outputFileName

\* The output files _tmain opens, and the shadow files it creates.
OpenOutputFiles(a, hashes) ==
  IF a.outputFileName = <<>> THEN <<NoFile>>
  ELSE [i \in 1..(IF a.bSumMode THEN Len(hashes) ELSE 1) |->
         [name |-> OutputName(a, hashes, i),
          shadow |-> IF a.bSumMode /\ ~a.bVerifyMode /\ a.bUseThreads /\ ~a.bOverwrite
                     THEN OutputName(a, hashes, i) \o ShadowSuffix ELSE <<>>]]

\* The output files opened as if no new line were added to a file that has
\* content: what C35 must tell from FilesOpened.
FilesOpenedNoNewLine(fs, a, of) ==
  LET names == {of[i].name : i \in DOMAIN of} \ {<<>>}
      shadows == {of[i].shadow : i \in DOMAIN of} \ {<<>>}
  IN [p \in DOMAIN fs \cup names \cup shadows |->
       IF p \in shadows THEN <<>>
       ELSE IF p \in names THEN (IF a.bOverwrite \/ p \notin DOMAIN fs THEN <<>> ELSE fs[p])
       ELSE fs[p]]

\* The file system once these are open: _tfopen with "wt" empties the file,
\* with "a+t" keeps it, and a file that has content gets a new line. The
\* files of the model are the text files _tfopen makes, which begin with the
\* three bytes of the byte order mark: a length above 3 is a file with lines.
FilesOpened(fs, a, of) ==
  LET names == {of[i].name : i \in DOMAIN of} \ {<<>>}
      shadows == {of[i].shadow : i \in DOMAIN of} \ {<<>>}
  IN [p \in DOMAIN fs \cup names \cup shadows |->
       IF p \in shadows THEN <<>>
       ELSE IF p \in names THEN (IF a.bOverwrite \/ p \notin DOMAIN fs THEN <<>>
                                 ELSE IF fs[p] # <<>> THEN Append(fs[p], <<>>) ELSE fs[p])
       ELSE fs[p]]

\* inputArg: argv[1] with '\' for '/', without a trailing backslash.
InputArg(a) ==
  LET r == ReplaceSlash(a.input)
  IN IF r # <<>> /\ r[Len(r)] = BS THEN SubSeq(r, 1, Len(r) - 1) ELSE r

\* What _tmain keeps of the verification file, and the exit code when the
\* run ends there (0 when it goes on).
NotVerified(a) == [digestsList |-> EmptyMap, skippedLines |-> <<>>, verifyDigest |-> <<>>, bSumMode |-> a.bSumMode, code |-> 0]

\* _tmain without the check of the hash length of the checksum file: what C9
\* must tell from CheckSumFile.
CheckSumFileUnguarded(a, sum, size, bIsFile) ==
  IF bIsFile /\ InputArg(a) \notin DOMAIN sum.digestList THEN [NotVerified(a) EXCEPT !.code = -5]
  ELSE [NotVerified(a) EXCEPT !.bSumMode = TRUE, !.skippedLines = sum.skippedLines,
                              !.digestsList = IF bIsFile THEN (InputArg(a) :> sum.digestList[InputArg(a)]) ELSE sum.digestList]

\* _tmain when ParseSumFile accepts the verification file: the check of the
\* hash length, and the entry of the input when the input is a file.
CheckSumFile(a, sum, size, bIsFile) ==
  IF Len(sum.digestList[MapOrder(DOMAIN sum.digestList)[1]].m_digest) # size THEN [NotVerified(a) EXCEPT !.code = -4]
  ELSE IF bIsFile /\ InputArg(a) \notin DOMAIN sum.digestList THEN [NotVerified(a) EXCEPT !.code = -5]
  ELSE [NotVerified(a) EXCEPT !.bSumMode = TRUE, !.skippedLines = sum.skippedLines,
                              !.digestsList = IF bIsFile THEN (InputArg(a) :> sum.digestList[InputArg(a)]) ELSE sum.digestList]

\* The digest a result file gives for the input: that of the entry with its
\* name, else the bare digest of the size of the algorithm, else none.
ResultDigest(res, entryName, size) ==
  IF entryName \in DOMAIN res.pathDigestList THEN res.pathDigestList[entryName].m_digest
  ELSE IF size \in DOMAIN res.rawDigestList THEN res.rawDigestList[size] ELSE <<>>

\* _tmain when ParseResultFile accepts the verification file.
CheckResultFile(a, res, entryName, size) ==
  IF entryName \notin DOMAIN res.pathDigestList /\ size \notin DOMAIN res.rawDigestList THEN [NotVerified(a) EXCEPT !.code = -8]
  ELSE IF Len(ResultDigest(res, entryName, size)) # size THEN [NotVerified(a) EXCEPT !.code = -4]
  ELSE [NotVerified(a) EXCEPT !.digestsList = res.pathDigestList, !.verifyDigest = ResultDigest(res, entryName, size)]

\* The part of _tmain that reads the verification file, whose lines are
\* given: as a checksum file, else as a result file, else the run fails.
ReadVerification(a, lines, size, bIsFile, inputDirPath) ==
  IF ~a.bVerifyMode THEN NotVerified(a)
  ELSE IF ParseSumFile(lines, TRUE, inputDirPath).bRet
  THEN CheckSumFile(a, ParseSumFile(lines, TRUE, inputDirPath), size, bIsFile)
  ELSE IF ParseResultFile(lines).bRet
  THEN CheckResultFile(a, ParseResultFile(lines), GetFileName(a.input), size)
  ELSE [NotVerified(a) EXCEPT !.code = -3]

(***************************************************************************)
(* _tmain up to the walk                                                   *)
(***************************************************************************)

\* ERROR_INVALID_PARAMETER
ERROR_INVALID_PARAMETER == 87

\* What the walk of _tmain comes to: HashDirectory on a directory, HashFile
\* on a file unless it is the verification file or the output file itself.
\* A directory is kept only where its name is hashed or FindFirstFile can
\* fail on it.
WalkOf(a, fs, inputArg, sumMode, verifying) ==
  IF tree.isDir
  THEN SelectSeq(HashDirectoryWalk(inputArg, tree, fs, [a EXCEPT !.bSumMode = sumMode], verifying),
                 LAMBDA e : e.isDir => (a.bIncludeNames \/ e.path \in unreadable))
  ELSE <<[isDir |-> FALSE, path |-> inputArg, data |-> tree.data]>>

\* "Input file is the same as SUM verification file" / "SUM result file"
InputIsSumFile(a, inputArg, sumMode, verifying) ==
  /\ ~tree.isDir /\ sumMode
  /\ LET target == IF verifying THEN a.verificationFileName ELSE a.outputFileName
     IN EnsureAbsolut(target) # <<>> /\ wcsicmp(EnsureAbsolut(target), EnsureAbsolut(inputArg)) = 0

\* Where _tmain goes after the walk: StopThreads waits for the threads when
\* there are some.
AfterWalk(sumMode, a, threadsCount) ==
  IF sumMode /\ a.bUseThreads /\ threadsCount > 0 THEN "stop" ELSE "report"

\* _tmain after the verification file is read, when the run goes on:
\* StartThreads, and what the walk will come to.
StartWalk(a, of, fs, v, todoWalk, started) ==
  /\ args' = a
  /\ files' = fs
  /\ outputFiles' = of
  /\ g_inputDirPath' = IF tree.isDir /\ (a.bSumMode \/ a.bVerifyMode) THEN InputArg(a) \o <<BS>> ELSE <<>>
  /\ g_bSumRelativePath' = (a.bSumRelativePath /\ ~(~tree.isDir /\ v.bSumMode))
  /\ bSumMode' = v.bSumMode
  /\ digestsList' = v.digestsList
  /\ skippedLines' = v.skippedLines
  /\ verifyDigest' = v.verifyDigest
  /\ g_threadsCount' = IF started THEN a.cpuCount ELSE 0
  /\ threads' = IF started THEN [w \in 1..NWorkers |-> [pc |-> "pop", job |-> NoJob]] ELSE threads
  /\ outputThread' = IF started /\ (~a.bQuiet \/ \E i \in DOMAIN of : of[i] # NoFile) THEN "pop" ELSE "none"
  /\ walk' = todoWalk
  /\ dwError' = IF InputIsSumFile(a, InputArg(a), v.bSumMode, v.bSumMode /\ DOMAIN v.digestsList # {}) THEN ERROR_INVALID_PARAMETER ELSE 0
  /\ pc' = IF todoWalk = <<>> THEN AfterWalk(v.bSumMode, a, IF started THEN a.cpuCount ELSE 0) ELSE "walk"
  /\ obs' = [obs EXCEPT !.before = files, !.started = started,
                        !.walked = {todoWalk[i].path : i \in {k \in DOMAIN todoWalk : ~todoWalk[k].isDir /\ ~IsExcludedName(todoWalk[k].path, TRUE, a.onlySpecList, a.excludeSpecList)}}]
  /\ UNCHANGED <<sessionVars, flagVars, g_bMismatchFound, g_jobsList, g_outputsList, events>>

\* GetPathType: whether the path names a file or a directory. The input
\* tree is what the disk holds under the name of its root, and the file
\* system finds a name without regard to the case of its letters.
GetPathType(szPath) == wcsicmp(szPath, tree.name) = 0

\* The threads started whenever -threads is given, in any mode: what C37
\* must tell from UseThreads.
UseThreadsInAnyMode(sumMode, a) == a.bUseThreads /\ a.cpuCount > 1

\* if (bSumMode) { if (bUseThreads) StartThreads(...) }, and StartThreads
\* returns at once on a machine of one processor.
UseThreads(sumMode, a) == sumMode /\ a.bUseThreads /\ a.cpuCount > 1

\* _tmain from the command line to the call of HashDirectory or HashFile.
Main ==
  /\ pc = "idle" /\ todo # <<>> /\ Head(todo).op = "run"
  /\ \E a \in {Head(todo).a} : \E hashes \in {GetHashes(a.hashAlgoToUse)} :
       IF hashes = <<>> THEN Return(a, 1, files, [NoObs EXCEPT !.before = files], <<>>)
       ELSE IF a.bVerifyMode /\ Len(hashes) > 1 THEN Return(a, -10, files, [NoObs EXCEPT !.before = files], <<>>)
       ELSE \E of \in {OpenOutputFiles(a, hashes)} : \E fs \in {FilesOpened(files, a, of)} :
            IF ~GetPathType(InputArg(a)) THEN Return(a, -2, fs, [NoObs EXCEPT !.before = files], <<>>) ELSE
            \E v \in {ReadVerification(a, IF a.verificationFileName \in DOMAIN fs THEN fs[a.verificationFileName] ELSE <<>>,
                                       GetHashSize(hashes[1]), ~tree.isDir,
                                       IF tree.isDir /\ (a.bSumMode \/ a.bVerifyMode) THEN InputArg(a) \o <<BS>> ELSE <<>>)} :
              IF v.code # 0 THEN Return(a, v.code, fs, [NoObs EXCEPT !.before = files], <<>>)
              ELSE /\ pHashes' = [i \in DOMAIN hashes |-> i]
                   /\ heap' = hashes
                   /\ \E todoWalk \in {IF InputIsSumFile(a, InputArg(a), v.bSumMode, v.bSumMode /\ DOMAIN v.digestsList # {}) THEN <<>>
                                       ELSE WalkOf(a, fs, InputArg(a), v.bSumMode, v.bSumMode /\ DOMAIN v.digestsList # {})} :
                        StartWalk(a, of, fs, v, todoWalk, UseThreads(v.bSumMode, a))

(***************************************************************************)
(* The walk: HashDirectory and HashFile, with ProcessFile                  *)
(***************************************************************************)

\* UpdateHashes on the engines at these addresses.
UpdateAt(h, addrs, pbData) ==
  [i \in DOMAIN h |-> IF \E k \in DOMAIN addrs : addrs[k] = i THEN Update(h[i], pbData) ELSE h[i]]

\* A name to hash that leaves the path out: what C7 must tell from
\* NameToHash.
NoNameToHash(szPath) == <<>>

\* pNameToHash: the path, or its last part with -stripnames (PathCanonicalize
\* leaves a path without "." and ".." parts as it is).
NameToHash(szPath) == IF args.bStripNames THEN GetFileName(szPath) ELSE szPath

\* The texts of the messages, each reduced to a mark and the path.
MismatchMsg(szFilePath) == <<"!", SP>> \o szFilePath

OpenFailedMsg(szFilePath) == <<"?", SP>> \o szFilePath

NotFoundMsg(szFilePath) == <<"-", SP>> \o szFilePath

\* ProcessFile after the read loop: whether the digest differs from the
\* expected one, and the lines produced, each with the output file it is for.
ProcessFile(engines, job) ==
  IF ~bSumMode THEN [bMismatch |-> FALSE, out |-> <<>>]
  ELSE IF job.bSumVerificationMode
  THEN (IF Final(engines[1]) # job.pbExpectedDigest
        THEN [bMismatch |-> TRUE, out |-> <<[text |-> MismatchMsg(job.filePath), nOutputFile |-> 1, bSkipOutputFile |-> FALSE]>>]
        ELSE [bMismatch |-> FALSE, out |-> <<>>])
  ELSE [bMismatch |-> FALSE,
        out |-> [i \in DOMAIN engines |->
                  [text |-> ToHex(Final(engines[i]), args.bLowerCase) \o <<SP, SP>>
                            \o (IF g_bSumRelativePath THEN From(job.filePath, Len(g_inputDirPath) + 1) ELSE job.filePath),
                   nOutputFile |-> i, bSkipOutputFile |-> FALSE]]]

\* _ftprintf of the lines, each to its output file when there is one: to the
\* shadow file if asked and there is one, else to the file itself.
RECURSIVE WriteLines(_, _, _)
WriteLines(fs, out, toShadow) ==
  IF out = <<>> THEN fs
  ELSE LET f == outputFiles[Head(out).nOutputFile]
           name == IF toShadow /\ f.shadow # <<>> THEN f.shadow ELSE f.name
       IN IF f = NoFile \/ Head(out).bSkipOutputFile THEN WriteLines(fs, Tail(out), toShadow)
          ELSE WriteLines([fs EXCEPT ![name] = Append(@, Head(out).text)], Tail(out), toShadow)

\* AddOutputEntry for each line in turn: InterlockedPushEntrySList puts an
\* entry in front.
RECURSIVE AddOutputEntries(_, _)
AddOutputEntries(list, out) ==
  IF out = <<>> THEN list ELSE AddOutputEntries(<<Head(out)>> \o list, Tail(out))

\* The lines of ProcessFile that are handed to the output thread:
\* if (!bQuiet || outputFiles[i]).
Queued(out) == SelectSeq(out, LAMBDA o : ~args.bQuiet \/ outputFiles[o.nOutputFile] # NoFile)

\* CreateFileW(..., GENERIC_READ, FILE_SHARE_READ, ...): fails on a file this
\* process holds open for writing, may fail on an unreadable one.
CreateFileW(szFilePath) ==
  IF \E i \in DOMAIN outputFiles : szFilePath \in {outputFiles[i].name, outputFiles[i].shadow} THEN {FALSE}
  ELSE IF szFilePath \in unreadable THEN {TRUE, FALSE}
  ELSE {TRUE}

\* The bytes the read loop of ProcessFile gets: while (ReadFile(...) &&
\* cbCount) ends without a word when ReadFile fails or reads nothing, so on a
\* file that cannot be relied on it gets any prefix of the contents.
ReadFile(szFilePath, data) ==
  IF szFilePath \in unreadable THEN {SubSeq(data, 1, n) : n \in 0..Len(data)} ELSE {data}

\* The message of a failure that is shown and not written: AddOutputEntry(...,
\* bError = true, bSkipOutputFile = true, 0) when threads run and the run is
\* not quiet.
ErrorEntries(text) ==
  IF ~args.bQuiet /\ g_threadsCount > 0
  THEN <<[text |-> text, nOutputFile |-> 1, bSkipOutputFile |-> TRUE]>> ELSE <<>>

\* DWORD HashFile(...) for the file the walk has come to. bOpened is what
\* CreateFileW gives, read the bytes the read loop gets when HashFile calls
\* ProcessFile itself.
HashFileResult(bOpened, read) ==
  LET szFilePath == Head(walk).path
      verifying == bSumMode /\ DOMAIN digestsList # {}
      pHashesToUse == IF bSumMode THEN [i \in DOMAIN pHashes |-> Len(heap) + i] ELSE pHashes
      same == [digestsList |-> digestsList, pHashes |-> pHashes, heap |-> heap, g_jobsList |-> g_jobsList,
               g_outputsList |-> g_outputsList, files |-> files, g_bMismatchFound |-> g_bMismatchFound,
               dwError |-> 0, events |-> events, obs |-> obs]
      job == [filePath |-> szFilePath, data |-> Head(walk).data, bSumVerificationMode |-> verifying,
              pbExpectedDigest |-> IF verifying /\ szFilePath \in DOMAIN digestsList THEN digestsList[szFilePath].m_digest ELSE <<>>,
              pHashes |-> pHashesToUse]
      Line(text) == <<[text |-> text, nOutputFile |-> 1, bSkipOutputFile |-> FALSE]>>
      \* "file not found in the checksum file"
      NotInList(r, shown) ==
        IF args.bSkipError
        THEN [r EXCEPT !.g_bMismatchFound = TRUE,
                       !.g_outputsList = AddOutputEntries(@, shown),
                       !.events = [@ EXCEPT !.outputReady = @ \/ shown # <<>>]]
        ELSE [r EXCEPT !.dwError = -5]
      \* the engines are cloned in checksum mode and made those of the caller
      cloned == IF bSumMode THEN heap \o CloneHashes([i \in DOMAIN pHashes |-> heap[pHashes[i]]]) ELSE heap
      Named(h) == IF args.bIncludeNames THEN UpdateAt(h, pHashesToUse, NameBytes(NameToHash(szFilePath))) ELSE h
      Found(named) == [same EXCEPT !.digestsList = IF verifying THEN [digestsList EXCEPT ![szFilePath].m_processed = TRUE] ELSE digestsList,
                                   !.pHashes = pHashesToUse,
                                   !.heap = named,
                                   !.obs = [obs EXCEPT !.handed = @ \cup {szFilePath}, !.opened = @ \cup {szFilePath}]]
      \* the file does not open
      Failed(r, shown) ==
        IF args.bSkipError
        THEN [r EXCEPT !.g_bMismatchFound = @ \/ bSumMode,
                       !.g_outputsList = AddOutputEntries(@, shown),
                       !.events = [@ EXCEPT !.outputReady = @ \/ shown # <<>>]]
        ELSE [r EXCEPT !.dwError = -1]
      \* ProcessFile in the caller
      Done(r, done) ==
        [r EXCEPT !.g_bMismatchFound = @ \/ done.bMismatch,
                  !.files = WriteLines(@, done.out, FALSE),
                  !.obs = [@ EXCEPT !.compared = IF verifying /\ ~done.bMismatch THEN @ \cup {szFilePath} ELSE @,
                                    !.mismatched = IF done.bMismatch THEN @ \cup {szFilePath} ELSE @]]
      Read(r, updated) == Done([r EXCEPT !.heap = updated], ProcessFile([i \in DOMAIN pHashesToUse |-> updated[pHashesToUse[i]]], job))
      Opened(found) ==
        IF ~bOpened
        THEN Failed([found EXCEPT !.files = WriteLines(@, IF ~bSumMode \/ verifying THEN Line(OpenFailedMsg(szFilePath)) ELSE <<>>, FALSE),
                                  !.obs = [@ EXCEPT !.unopened = @ \cup {szFilePath}]],
                    ErrorEntries(OpenFailedMsg(szFilePath)))
        ELSE IF bSumMode /\ g_threadsCount > 0
        THEN [found EXCEPT !.g_jobsList = <<job>> \o @, !.events = [@ EXCEPT !.ready = TRUE]]
        ELSE Read([found EXCEPT !.obs = [@ EXCEPT !.short = IF read # Head(walk).data THEN @ \cup {szFilePath} ELSE @]],
                  UpdateAt(found.heap, pHashesToUse, read))
  IN IF IsExcludedName(szFilePath, TRUE, args.onlySpecList, args.excludeSpecList) THEN same
     ELSE IF verifying /\ szFilePath \notin DOMAIN digestsList
     THEN NotInList([same EXCEPT !.files = WriteLines(@, Line(NotFoundMsg(szFilePath)), FALSE),
                                 !.obs = [@ EXCEPT !.handed = @ \cup {szFilePath}]],
                    ErrorEntries(NotFoundMsg(szFilePath)))
     ELSE Opened(Found(Named(cloned)))

\* "FindFirstFile failed on ...", reduced to a mark and the path.
ListFailedMsg(szDirPath) == <<"#", SP>> \o szDirPath

\* FindFirstFile(szDir + "\*"): may fail on a directory that cannot be relied
\* on.
FindFirstFile(szDirPath) == IF szDirPath \in unreadable THEN {TRUE, FALSE} ELSE {TRUE}

\* A FindFirstFile that never fails: what C27 must tell from FindFirstFile.
FindFirstFileFound(szDirPath) == {TRUE}

\* HashDirectory for a directory the walk enters. When FindFirstFile fails the
\* message is written to outputFiles[0] outside the writing of checksum
\* files, and HashDirectory returns: 0 with g_bSkipError, so that the walk goes
\* on after the directory, else GetLastError() (here ERROR_ACCESS_DENIED), so
\* that the walk ends. Otherwise the name is hashed with -hashnames and the
\* walk goes on into the directory.
HashDirectory ==
  /\ pc = "walk" /\ walk # <<>> /\ Head(walk).isDir
  /\ \E bFound \in FindFirstFile(Head(walk).path) :
       LET szDirPath == Head(walk).path
           verifying == bSumMode /\ DOMAIN digestsList # {}
           written == IF ~bSumMode \/ verifying
                      THEN <<[text |-> ListFailedMsg(szDirPath), nOutputFile |-> 1, bSkipOutputFile |-> FALSE]>> ELSE <<>>
           shown == IF args.bSkipError /\ ~args.bQuiet /\ g_threadsCount > 0
                    THEN <<[text |-> ListFailedMsg(szDirPath), nOutputFile |-> 1, bSkipOutputFile |-> TRUE]>> ELSE <<>>
       IN IF bFound
          THEN /\ heap' = IF args.bIncludeNames THEN UpdateAt(heap, pHashes, NameBytes(NameToHash(szDirPath))) ELSE heap
               /\ walk' = Tail(walk)
               /\ UNCHANGED <<files, dwError, g_outputsList, events, obs>>
          ELSE /\ heap' = heap
               /\ files' = WriteLines(files, written, FALSE)
               /\ g_outputsList' = AddOutputEntries(g_outputsList, shown)
               /\ events' = [events EXCEPT !.outputReady = @ \/ shown # <<>>]
               /\ obs' = [(IF shown # <<>> THEN Touched(obs) ELSE obs) EXCEPT !.unlisted = @ \cup {szDirPath}]
               /\ dwError' = IF args.bSkipError THEN 0 ELSE 5
               /\ walk' = IF args.bSkipError
                          THEN SelectSeq(Tail(walk), LAMBDA e : ~StartsWith(e.path, szDirPath \o <<BS>>))
                          ELSE <<>>
  /\ pc' = IF walk' = <<>> THEN AfterWalk(bSumMode, args, g_threadsCount) ELSE "walk"
  /\ UNCHANGED <<sessionVars, mainVars, flagVars, digestsList, pHashes, g_bMismatchFound, g_jobsList, threads, outputThread>>

\* The walk comes to a file: HashFile, and the loop of HashDirectory goes on
\* unless HashFile gave an error.
HashFile ==
  /\ pc = "walk" /\ walk # <<>> /\ ~Head(walk).isDir
  /\ \E bOpened \in CreateFileW(Head(walk).path) : \E read \in ReadFile(Head(walk).path, Head(walk).data) :
     \E r \in {HashFileResult(bOpened, read)} :
       /\ digestsList' = r.digestsList
       /\ pHashes' = r.pHashes
       /\ heap' = r.heap
       /\ g_jobsList' = r.g_jobsList
       /\ g_outputsList' = r.g_outputsList
       /\ files' = r.files
       /\ g_bMismatchFound' = r.g_bMismatchFound
       /\ dwError' = r.dwError
       /\ events' = r.events
       /\ obs' = IF r.g_jobsList # g_jobsList \/ r.g_outputsList # g_outputsList THEN Touched(r.obs) ELSE r.obs
       /\ walk' = IF r.dwError # 0 THEN <<>> ELSE Tail(walk)
       /\ pc' = IF r.dwError # 0 \/ Tail(walk) = <<>> THEN AfterWalk(bSumMode, args, g_threadsCount) ELSE "walk"
  /\ UNCHANGED <<sessionVars, mainVars, flagVars, threads, outputThread>>

(***************************************************************************)
(* The threads: ThreadCode, OutputThreadCode, StopThreads                  *)
(***************************************************************************)

\* ThreadCode at the top of its loop: it ends on g_bFatalError, takes the
\* job in front of g_jobsList and opens its file, or finds the list empty.
\* A file that does not open is reported and, with g_bSkipError in checksum
\* mode, counted as a mismatch; otherwise the thread goes on to assign
\* g_szLastErrorMsg, which it does under no lock.
ThreadPop(w) ==
  /\ threads[w].pc = "pop"
  /\ IF g_bFatalError
     THEN /\ threads' = [threads EXCEPT ![w].pc = "exit"]
          /\ UNCHANGED <<g_jobsList, g_outputsList, g_bMismatchFound, events, files, obs>>
     ELSE IF g_jobsList = <<>>
     THEN /\ threads' = [threads EXCEPT ![w].pc = "check"]
          /\ obs' = Touched(obs)
          /\ UNCHANGED <<g_jobsList, g_outputsList, g_bMismatchFound, events, files>>
     ELSE \E bOpened \in CreateFileW(Head(g_jobsList).filePath) :
            LET p == Head(g_jobsList)
                failed == IF args.bSkipError THEN ErrorEntries(OpenFailedMsg(p.filePath)) ELSE <<>>
                unopened == IF p.bSumVerificationMode
                            THEN <<[text |-> OpenFailedMsg(p.filePath), nOutputFile |-> 1, bSkipOutputFile |-> FALSE]>> ELSE <<>>
            IN /\ g_jobsList' = Tail(g_jobsList)
               /\ obs' = Touched([obs EXCEPT !.opened = @ \cup {p.filePath},
                                              !.unopened = IF bOpened THEN @ ELSE @ \cup {p.filePath}])
               /\ IF bOpened
                  THEN /\ threads' = [threads EXCEPT ![w] = [pc |-> "read", job |-> p]]
                       /\ UNCHANGED <<g_outputsList, g_bMismatchFound, events, files>>
                  ELSE /\ threads' = IF args.bSkipError THEN threads ELSE [threads EXCEPT ![w].pc = "write"]
                       /\ files' = WriteLines(files, unopened, FALSE)
                       /\ g_outputsList' = AddOutputEntries(g_outputsList, failed)
                       /\ events' = [events EXCEPT !.outputReady = @ \/ failed # <<>>]
                       /\ g_bMismatchFound' = (g_bMismatchFound \/ args.bSkipError)
  /\ UNCHANGED <<sessionVars, mainVars, flagVars, pc, dwError, digestsList, pHashes, heap, walk, outputThread>>

\* g_szLastErrorMsg = szMsg; delete p: the assignment of the std::wstring
\* has begun when the thread is at "write" and is over after this step. The
\* text of the message is not part of the state.
ThreadSetLastError(w) ==
  /\ threads[w].pc = "write"
  /\ threads' = [threads EXCEPT ![w].pc = "pop"]
  /\ UNCHANGED <<sessionVars, files, mainVars, flagVars, pc, dwError, digestsList, pHashes, heap, walk, g_bMismatchFound, g_jobsList, g_outputsList, outputThread, events, obs>>

\* else if (g_bStopThreads || g_bFatalError) break; else wait
ThreadCheck(w) ==
  /\ threads[w].pc = "check"
  /\ threads' = [threads EXCEPT ![w].pc = IF g_bStopThreads \/ g_bFatalError THEN "exit" ELSE "wait"]
  /\ UNCHANGED <<sessionVars, files, mainVars, flagVars, pc, dwError, digestsList, pHashes, heap, walk, g_bMismatchFound, g_jobsList, g_outputsList, outputThread, events, obs>>

\* A wait of ThreadCode on g_hReadyEvent alone: what C22 must tell from
\* ThreadWait.
ThreadWaitReady(w) ==
  /\ threads[w].pc = "wait"
  /\ events.ready
  /\ events' = [events EXCEPT !.ready = FALSE]
  /\ threads' = [threads EXCEPT ![w].pc = "pop"]
  /\ UNCHANGED <<sessionVars, files, mainVars, flagVars, pc, dwError, digestsList, pHashes, heap, walk, g_bMismatchFound, g_jobsList, g_outputsList, outputThread, obs>>

\* WaitForMultipleObjects(2, {g_hReadyEvent, g_hStopEvent}, FALSE, INFINITE):
\* g_hReadyEvent resets when it lets a thread through, g_hStopEvent stays.
ThreadWait(w) ==
  /\ threads[w].pc = "wait"
  /\ events.ready \/ events.stop
  /\ events' = [events EXCEPT !.ready = FALSE]
  /\ threads' = [threads EXCEPT ![w].pc = "pop"]
  /\ UNCHANGED <<sessionVars, files, mainVars, flagVars, pc, dwError, digestsList, pHashes, heap, walk, g_bMismatchFound, g_jobsList, g_outputsList, outputThread, obs>>

\* A read loop that also marks the entry of the file as processed: what C24
\* must tell from ThreadRead.
ThreadReadMarks(w) ==
  /\ threads[w].pc = "read"
  /\ \E read \in ReadFile(threads[w].job.filePath, threads[w].job.data) :
       /\ heap' = UpdateAt(heap, threads[w].job.pHashes, read)
       /\ obs' = [obs EXCEPT !.short = IF read # threads[w].job.data THEN @ \cup {threads[w].job.filePath} ELSE @]
  /\ threads' = [threads EXCEPT ![w].pc = "final"]
  /\ digestsList' = [n \in DOMAIN digestsList |-> IF n = threads[w].job.filePath THEN [digestsList[n] EXCEPT !.m_processed = ~@] ELSE digestsList[n]]
  /\ UNCHANGED <<sessionVars, files, mainVars, flagVars, pc, dwError, pHashes, walk, g_bMismatchFound, g_jobsList, g_outputsList, outputThread, events>>

\* The read loop of ProcessFile in a thread: UpdateHashes on the engines of
\* the job.
ThreadRead(w) ==
  /\ threads[w].pc = "read"
  /\ \E read \in ReadFile(threads[w].job.filePath, threads[w].job.data) :
       /\ heap' = UpdateAt(heap, threads[w].job.pHashes, read)
       /\ obs' = [obs EXCEPT !.short = IF read # threads[w].job.data THEN @ \cup {threads[w].job.filePath} ELSE @]
  /\ threads' = [threads EXCEPT ![w].pc = "final"]
  /\ UNCHANGED <<sessionVars, files, mainVars, flagVars, pc, dwError, digestsList, pHashes, walk, g_bMismatchFound, g_jobsList, g_outputsList, outputThread, events>>

\* The rest of ProcessFile in a thread: Final, the comparison or the lines,
\* handed to the output thread.
ThreadFinal(w) ==
  /\ threads[w].pc = "final"
  /\ \E p \in {threads[w].job} : \E done \in {ProcessFile([i \in DOMAIN p.pHashes |-> heap[p.pHashes[i]]], p)} :
     \E queued \in {Queued(done.out)} :
       /\ g_bMismatchFound' = (g_bMismatchFound \/ done.bMismatch)
       /\ g_outputsList' = AddOutputEntries(g_outputsList, queued)
       /\ events' = [events EXCEPT !.outputReady = @ \/ queued # <<>>]
       /\ \E o \in {[obs EXCEPT !.compared = IF p.bSumVerificationMode /\ ~done.bMismatch THEN @ \cup {p.filePath} ELSE @,
                                !.mismatched = IF done.bMismatch THEN @ \cup {p.filePath} ELSE @]} :
            obs' = IF queued # <<>> THEN Touched(o) ELSE o
  /\ threads' = [threads EXCEPT ![w] = [pc |-> "pop", job |-> NoJob]]
  /\ UNCHANGED <<sessionVars, files, mainVars, flagVars, pc, dwError, digestsList, pHashes, heap, walk, g_jobsList, outputThread>>

\* OutputThreadCode at the top of its loops: it ends on g_bFatalError, writes
\* the entry in front of g_outputsList, or finds the list empty.
OutputPop ==
  /\ outputThread = "pop"
  /\ IF g_bFatalError THEN outputThread' = "exit" /\ UNCHANGED <<g_outputsList, files, obs>>
     ELSE IF g_outputsList = <<>> THEN outputThread' = "check" /\ obs' = Touched(obs) /\ UNCHANGED <<g_outputsList, files>>
     ELSE /\ files' = WriteLines(files, <<Head(g_outputsList)>>, TRUE)
          /\ g_outputsList' = Tail(g_outputsList)
          /\ obs' = Touched(obs)
          /\ outputThread' = "pop"
  /\ UNCHANGED <<sessionVars, mainVars, flagVars, pc, dwError, digestsList, pHashes, heap, walk, g_bMismatchFound, g_jobsList, threads, events>>

\* if (g_bStopOutputThread || g_bFatalError) break; else wait
OutputCheck ==
  /\ outputThread = "check"
  /\ outputThread' = IF g_bStopOutputThread \/ g_bFatalError THEN "exit" ELSE "wait"
  /\ UNCHANGED <<sessionVars, files, mainVars, flagVars, pc, dwError, digestsList, pHashes, heap, walk, g_bMismatchFound, g_jobsList, g_outputsList, threads, events, obs>>

\* WaitForMultipleObjects(2, {g_hOutputReadyEvent, g_hOutputStopEvent}, ...)
OutputWait ==
  /\ outputThread = "wait"
  /\ events.outputReady \/ events.outputStop
  /\ events' = [events EXCEPT !.outputReady = FALSE]
  /\ outputThread' = "pop"
  /\ UNCHANGED <<sessionVars, files, mainVars, flagVars, pc, dwError, digestsList, pHashes, heap, walk, g_bMismatchFound, g_jobsList, g_outputsList, threads, obs>>

\* StopThreads(dwError != NO_ERROR) up to the wait for the ThreadCode threads.
StopThreads ==
  /\ pc = "stop"
  /\ g_bFatalError' = (dwError # 0)
  /\ g_bStopThreads' = TRUE
  /\ events' = [events EXCEPT !.stop = TRUE]
  /\ pc' = "join"
  /\ UNCHANGED <<sessionVars, files, mainVars, g_bStopOutputThread, dwError, digestsList, pHashes, heap, walk, g_bMismatchFound, g_jobsList, g_outputsList, threads, outputThread, obs>>

\* StopThreads once every ThreadCode has returned, up to the wait for the
\* output thread.
StopThreadsJoin ==
  /\ pc = "join"
  /\ \A w \in 1..NWorkers : threads[w].pc = "exit"
  /\ g_bStopOutputThread' = TRUE
  /\ events' = [events EXCEPT !.outputStop = TRUE]
  /\ pc' = "joinOutput"
  /\ UNCHANGED <<sessionVars, files, mainVars, g_bFatalError, g_bStopThreads, dwError, digestsList, pHashes, heap, walk, g_bMismatchFound, g_jobsList, g_outputsList, threads, outputThread, obs>>

\* StopThreads once the output thread has returned: FreejobList and
\* FreeOutputList drop what is left in the lists.
StopThreadsEnd ==
  /\ pc = "joinOutput"
  /\ outputThread \in {"exit", "none"}
  /\ g_jobsList' = <<>>
  /\ g_outputsList' = <<>>
  /\ obs' = Released([obs EXCEPT !.lost = @ \/ g_jobsList # <<>> \/ g_outputsList # <<>>])
  /\ pc' = "report"
  /\ UNCHANGED <<sessionVars, files, mainVars, flagVars, dwError, digestsList, pHashes, heap, walk, g_bMismatchFound, threads, outputThread, events>>

(***************************************************************************)
(* CtrlHandler                                                             *)
(***************************************************************************)

\* CtrlHandler for CTRL_C_EVENT, CTRL_CLOSE_EVENT or CTRL_BREAK_EVENT, on the
\* thread the system starts for it while _tmain runs: with threads it sets
\* the three flags and both stop events and frees both lists. It returns
\* FALSE, which leaves the end of the process to the next handler.
CtrlHandler ==
  /\ pc # "idle" /\ todo # <<>> /\ "signal" \in DOMAIN Head(todo) /\ Head(todo).signal = "pending"
  /\ todo' = <<[Head(todo) EXCEPT !.signal = "handled"]>> \o Tail(todo)
  /\ IF g_threadsCount > 0
     THEN /\ g_bFatalError' = TRUE
          /\ g_bStopThreads' = TRUE
          /\ g_bStopOutputThread' = TRUE
          /\ events' = [events EXCEPT !.stop = TRUE, !.outputStop = TRUE]
          /\ g_jobsList' = <<>>
          /\ g_outputsList' = <<>>
          /\ obs' = Released([obs EXCEPT !.lost = @ \/ g_jobsList # <<>> \/ g_outputsList # <<>>])
     ELSE UNCHANGED <<flagVars, events, g_jobsList, g_outputsList, obs>>
  /\ UNCHANGED <<tree, unreadable, past, files, mainVars, pc, dwError, digestsList, pHashes, heap, walk, g_bMismatchFound, threads, outputThread>>

\* The handler of the system that follows CtrlHandler: ExitProcess with
\* STATUS_CONTROL_C_EXIT (0xC000013A as an int), wherever the threads are.
\* When a list was used after its release the process may end before that
\* with STATUS_ACCESS_VIOLATION.
ExitProcess ==
  /\ pc # "idle" /\ todo # <<>> /\ "signal" \in DOMAIN Head(todo) /\ Head(todo).signal = "handled"
  /\ \E code \in {-1073741510} \cup (IF obs.afterFree THEN {-1073741819} ELSE {}) :
       Return(args, code, files, obs, [i \in DOMAIN pHashes |-> heap[pHashes[i]].fed])

(***************************************************************************)
(* _tmain after the walk                                                   *)
(***************************************************************************)

\* %d for a number below 100
Decimal(n) ==
  LET d == <<"0", "1", "2", "3", "4", "5", "6", "7", "8", "9">>
  IN IF n >= 10 THEN <<d[(n \div 10) + 1], d[(n % 10) + 1]>> ELSE <<d[n + 1]>>

\* The line of a result file for one engine: "%s hash of \"%s\" (%d bytes) = "
\* unless quiet, then the digest.
ResultLine(engine) ==
  (IF args.bQuiet THEN <<>>
   ELSE engine.id \o <<SP>> \o HashOfText \o GetFileName(args.input) \o <<"\"", SP, "(">>
        \o Decimal(GetHashSize(engine)) \o <<SP>> \o BytesEqText)
  \o ToHex(Final(engine), args.bLowerCase)

\* "Sort the entries of each sum file in case of multithreaded mode", from
\* the i-th output file on: a shadow file is sorted into the output file and
\* deleted, an output file without one is sorted in place; nothing is written
\* when SortSumFile fails.
RECURSIVE SortOutputFiles(_, _)
SortOutputFiles(fs, i) ==
  IF i > Len(outputFiles) THEN fs
  ELSE LET Sorted(f, sorted) ==
             IF ~sorted.bRet THEN fs
             ELSE IF f.shadow # <<>>
             THEN [p \in DOMAIN fs \ {f.shadow} |-> IF p = f.name THEN fs[p] \o sorted.out ELSE fs[p]]
             ELSE [fs EXCEPT ![f.name] = sorted.out]
           SortOne(f) == IF f = NoFile THEN fs ELSE Sorted(f, SortSumFile(fs[IF f.shadow # <<>> THEN f.shadow ELSE f.name], args.bLowerCase))
       IN SortOutputFiles(SortOne(outputFiles[i]), i + 1)

\* The exit codes the end of _tmain can give. After a verification against a
\* checksum file with skipped lines, "if (*outputFiles[0])" reads through
\* outputFiles[0], which is null when no output file was asked for: the
\* process may end there with STATUS_ACCESS_VIOLATION (0xC0000005 as an int).
ExitCodes ==
  IF dwError # 0 THEN {dwError}
  ELSE IF bSumMode /\ args.bVerifyMode
  THEN (LET skippedEntries == \E k \in DOMAIN digestsList : ~digestsList[k].m_processed
            code == IF g_bMismatchFound \/ skippedEntries THEN -7 ELSE 0
        IN IF skippedLines # <<>> /\ outputFiles[1] = NoFile THEN {code, -1073741819} ELSE {code})
  ELSE IF ~bSumMode /\ args.bVerifyMode
  THEN {IF SubSeq(Final(heap[pHashes[1]]), 1, Len(verifyDigest)) # verifyDigest THEN -7 ELSE 0}
  ELSE {0}

\* The files as the end of _tmain leaves them.
FilesAtExit ==
  IF dwError # 0 \/ args.bVerifyMode THEN files
  ELSE IF bSumMode THEN (IF args.bUseThreads THEN SortOutputFiles(files, 1) ELSE files)
  ELSE WriteLines(files, [i \in DOMAIN pHashes |-> [text |-> ResultLine(heap[pHashes[i]]), nOutputFile |-> 1, bSkipOutputFile |-> FALSE]], FALSE)

\* _tmain from "if (dwError == NO_ERROR)" to its return.
Report ==
  /\ pc = "report"
  /\ \E code \in ExitCodes :
       Return(args, code, FilesAtExit,
              [obs EXCEPT !.stdout = IF dwError = 0 /\ ~bSumMode /\ ~args.bVerifyMode
                                     THEN [i \in DOMAIN pHashes |-> ToHex(Final(heap[pHashes[i]]), args.bLowerCase)] ELSE <<>>],
              [i \in DOMAIN pHashes |-> heap[pHashes[i]].fed])

(***************************************************************************)
(* Between two runs                                                        *)
(***************************************************************************)

\* The files the program wrote are removed.
DeleteOutputs ==
  /\ pc = "idle" /\ todo # <<>> /\ Head(todo).op = "clean"
  /\ files' = NoFiles
  /\ todo' = Tail(todo)
  /\ UNCHANGED <<tree, unreadable, past, args, pc, dwError, bSumMode, digestsList, skippedLines, verifyDigest, pHashes, heap, walk, outputFiles, g_bMismatchFound, g_bFatalError, g_bStopThreads, g_bStopOutputThread, g_threadsCount, g_inputDirPath, g_bSumRelativePath, g_jobsList, g_outputsList, threads, outputThread, events, obs>>

\* The node with the directory at the place `at` (the indices of the entries
\* that lead to it) given another name.
RECURSIVE Renamed(_, _, _)
Renamed(node, at, name) ==
  IF at = <<>> THEN [node EXCEPT !.name = name]
  ELSE [node EXCEPT !.kids = [@ EXCEPT ![Head(at)] = Renamed(@, Tail(at), name)]]

\* A directory of the tree is renamed.
RenameDirectory ==
  /\ pc = "idle" /\ todo # <<>> /\ Head(todo).op = "rename"
  /\ tree' = Renamed(tree, Head(todo).at, Head(todo).name)
  /\ todo' = Tail(todo)
  /\ UNCHANGED <<unreadable, files, past, args, pc, dwError, bSumMode, digestsList, skippedLines, verifyDigest, pHashes, heap, walk, outputFiles, g_bMismatchFound, g_bFatalError, g_bStopThreads, g_bStopOutputThread, g_threadsCount, g_inputDirPath, g_bSumRelativePath, g_jobsList, g_outputsList, threads, outputThread, events, obs>>

(***************************************************************************)
(* The sessions that are checked                                           *)
(***************************************************************************)

\* The largest number of entries of the input directory.
MaxEntries == 2

\* The sequences of at most n of these entries, no two with the same name
\* (letters compared without case): a directory in some order of enumeration.
RECURSIVE KidSeqs(_, _)
KidSeqs(entries, n) ==
  IF n = 0 THEN {<<>>}
  ELSE LET shorter == KidSeqs(entries, n - 1)
       IN shorter \cup {Append(x[1], x[2]) : x \in {y \in shorter \X entries : \A i \in DOMAIN y[1] : wcsicmp(y[1][i].name, y[2].name) # 0}}

\* The command line with no option: DirHash.exe D
NoOption ==
  [input |-> <<"D">>, hashAlgoToUse |-> IdMD5, bSumMode |-> FALSE, bVerifyMode |-> FALSE, bUseThreads |-> FALSE,
   bIncludeNames |-> FALSE, bStripNames |-> FALSE, bSkipError |-> FALSE, bQuiet |-> FALSE, bOverwrite |-> FALSE,
   bSumRelativePath |-> FALSE, bLowerCase |-> FALSE, outputFileName |-> <<>>, verificationFileName |-> <<>>,
   onlySpecList |-> <<>>, excludeSpecList |-> <<>>, cpuCount |-> 1]

Run(a) == [op |-> "run", a |-> a]

Clean == [op |-> "clean"]

\* -sum -t file, with -threads on a machine of NWorkers processors if asked
SumRun(alg, file, bThreads) ==
  [NoOption EXCEPT !.bSumMode = TRUE, !.hashAlgoToUse = alg, !.outputFileName = file, !.bUseThreads = bThreads,
                   !.cpuCount = IF bThreads THEN NWorkers ELSE 1]

\* -verify file
VerifyRun(alg, file, bThreads) ==
  [NoOption EXCEPT !.bVerifyMode = TRUE, !.hashAlgoToUse = alg, !.verificationFileName = file, !.bUseThreads = bThreads,
                   !.cpuCount = IF bThreads THEN NWorkers ELSE 1]

\* The entries of the input directories of checksum sessions.
SumEntries ==
  {File(<<"a", ".", "t", "x", "t">>, <<1>>), File(<<"B">>, <<2>>), Dir(<<"d", "i", "r", "1">>, <<>>),
   Dir(<<"d", "i", "r", "1">>, <<File(<<"c", ".", "t", "x", "t">>, <<3>>)>>)}

SumTrees == {Dir(<<"D">>, kids) : kids \in KidSeqs(SumEntries, MaxEntries)}

\* The paths of the files of a tree.
RECURSIVE FilePaths(_, _)
FilePaths(path, node) ==
  IF ~node.isDir THEN {path}
  ELSE UNION {FilePaths(AppendName(path, node.kids[i].name), node.kids[i]) : i \in DOMAIN node.kids}

M == <<"m">>

\* The trees on which runs with threads are followed.
DeepTree == Dir(<<"D">>, <<File(<<"a", ".", "t", "x", "t">>, <<1>>), Dir(<<"d", "i", "r", "1">>, <<File(<<"c", ".", "t", "x", "t">>, <<3>>)>>)>>)

FlatTree == Dir(<<"D">>, <<File(<<"B">>, <<2>>)>>)

NamedTree == Dir(<<"D">>, <<File(<<"a", ".", "t", "x", "t">>, <<1>>), Dir(<<"d", "i", "r", "1">>, <<>>)>>)

\* A checksum file is written, then the same input is verified against it,
\* with the same algorithm or with one of another digest size.
RoundtripSessions ==
  {[tree |-> t, unreadable |-> {},
    todo |-> <<Run([SumRun(IdMD5, M, FALSE) EXCEPT !.bSumRelativePath = rel]),
               Run([VerifyRun(alg, M, FALSE) EXCEPT !.bSkipError = skip])>>] :
     t \in SumTrees, rel \in BOOLEAN, alg \in {IdMD5, IdSHA1}, skip \in BOOLEAN}
  \cup
  {[tree |-> t, unreadable |-> {},
    todo |-> <<Run([SumRun(IdMD5, M, th) EXCEPT !.bSumRelativePath = rel]),
               Run(VerifyRun(alg, M, ~th))>>] :
     t \in {DeepTree, FlatTree}, th \in BOOLEAN, rel \in BOOLEAN, alg \in {IdMD5, IdSHA1}}

\* The same checksum file is written twice, the second time without what the
\* first run wrote: with the same options, or with and without -threads.
TwiceSessions ==
  {[tree |-> t, unreadable |-> {},
    todo |-> <<Run([SumRun(IdMD5, M, FALSE) EXCEPT !.bIncludeNames = h]), Clean,
               Run([SumRun(IdMD5, M, FALSE) EXCEPT !.bIncludeNames = h])>>] :
     t \in SumTrees, h \in BOOLEAN}
  \cup
  {[tree |-> t, unreadable |-> {},
    todo |-> <<Run([SumRun(IdMD5, M, TRUE) EXCEPT !.cpuCount = n]), Clean, Run(SumRun(IdMD5, M, FALSE))>>] :
     t \in {DeepTree, FlatTree}, n \in {1, NWorkers}}
  \cup
  {[tree |-> t, unreadable |-> {},
    todo |-> <<Run([SumRun(IdMD5, M, TRUE) EXCEPT !.bIncludeNames = h]), Clean,
               Run([SumRun(IdMD5, M, TRUE) EXCEPT !.bIncludeNames = h])>>] :
     t \in {NamedTree, FlatTree}, h \in BOOLEAN}

MD5andSHA1 == IdMD5 \o <<",">> \o IdSHA1

\* A checksum file, or one per algorithm, is written inside the input
\* directory.
InsideSessions ==
  {[tree |-> t, unreadable |-> {},
    todo |-> <<Run([SumRun(alg, <<"D", BS, "m">>, th) EXCEPT !.bSkipError = skip])>>] :
     t \in {FlatTree}, alg \in {IdMD5, MD5andSHA1}, th \in BOOLEAN, skip \in BOOLEAN}

\* A file of the input cannot always be opened; the verification writes to
\* no file, or to the file of -t.
UnreadableSessions ==
  {[tree |-> FlatTree, unreadable |-> {<<"D", BS, "B">>},
    todo |-> <<Run(SumRun(IdMD5, M, FALSE)), Run([VerifyRun(IdMD5, M, th) EXCEPT !.bSkipError = skip, !.outputFileName = out])>>] :
     th \in BOOLEAN, skip \in BOOLEAN, out \in {<<>>, <<"o">>}}

\* DirHash.exe input alg [-t file] [-hashnames] [-stripnames] [-quiet]
DigestRun(input, alg, file, bNames, bStrip, bQuiet) ==
  [NoOption EXCEPT !.input = input, !.hashAlgoToUse = alg, !.outputFileName = file, !.bIncludeNames = bNames,
                   !.bStripNames = bStrip, !.bQuiet = bQuiet]

R == <<"r">>

\* A result file is written for a file, then the file is verified against it.
ResultSessions(algs) ==
  {[tree |-> File(<<"F">>, <<5>>), unreadable |-> {},
    todo |-> <<Run(DigestRun(<<"F">>, x[1], R, FALSE, FALSE, q)),
               Run([VerifyRun(x[2], R, FALSE) EXCEPT !.input = <<"F">>])>>] :
     x \in algs, q \in BOOLEAN}

\* The places of the directories of a tree: the indices that lead to each.
RECURSIVE DirPlaces(_)
DirPlaces(node) ==
  UNION {IF node.kids[i].isDir THEN {<<i>>} \cup {<<i>> \o at : at \in DirPlaces(node.kids[i])} ELSE {} : i \in DOMAIN node.kids}

\* The entries beside the one at a place of a tree.
RECURSIVE Siblings(_, _)
Siblings(node, at) ==
  IF Len(at) = 1 THEN {node.kids[i] : i \in DOMAIN node.kids \ {at[1]}} ELSE Siblings(node.kids[Head(at)], Tail(at))

\* The digest of a directory is computed, one of its directories is given a
\* name that no entry beside it has, and the digest is computed again.
RenameSessions(trees, names, bStrips) ==
  UNION {{[tree |-> t, unreadable |-> {},
           todo |-> <<Run(DigestRun(<<"D">>, IdSHA512, <<>>, x[3], x[3] /\ x[4], FALSE)),
                      [op |-> "rename", at |-> x[1], name |-> x[2]],
                      Run(DigestRun(<<"D">>, IdSHA512, <<>>, x[3], x[3] /\ x[4], FALSE))>>] :
            x \in {y \in DirPlaces(t) \X names \X BOOLEAN \X bStrips :
                     /\ \A k \in Siblings(t, y[1]) : wcsicmp(k.name, y[2]) # 0
                     /\ Renamed(t, y[1], y[2]) # t}} : t \in trees}

\* The entries of the input directories of sessions that compute one digest.
DigestEntries ==
  {File(<<"a", ".", "t", "x", "t">>, <<1>>), File(<<"B">>, <<2>>), Dir(<<"a", "b">>, <<>>),
   Dir(<<"a", "b">>, <<File(<<"c", ".", "t", "x", "t">>, <<3>>)>>), Dir(<<"a", "b", "a">>, <<>>)}

DigestTrees == {Dir(<<"D">>, kids) : kids \in KidSeqs(DigestEntries, MaxEntries)}

\* -only and -exclude: none, -exclude *.txt, -only *.txt, -exclude *ab
Filters ==
  {[only |-> <<>>, exclude |-> <<>>], [only |-> <<>>, exclude |-> <<<<"*", ".", "t", "x", "t">>>>],
   [only |-> <<<<"*", ".", "t", "x", "t">>>>, exclude |-> <<>>], [only |-> <<>>, exclude |-> <<<<"*", "a", "b">>>>]}

\* The digest of a directory is computed, by one engine or by two.
DigestSessions ==
  {[tree |-> t, unreadable |-> {},
    todo |-> <<Run([DigestRun(<<"D">>, alg, <<>>, FALSE, FALSE, FALSE) EXCEPT !.onlySpecList = f.only, !.excludeSpecList = f.exclude])>>] :
     t \in DigestTrees, alg \in {IdMD5, MD5andSHA1}, f \in Filters}

\* A directory whose name matches no pattern of the kind "*.txt" and matches
\* "*ab", with a file in it, and a file beside it.
OnlyTree == Dir(<<"D">>, <<Dir(<<"a", "b">>, <<File(<<"c", ".", "t", "x", "t">>, <<3>>)>>), File(<<"B">>, <<2>>)>>)

\* -only lists: *.txt; *ab; *.txt and *B
OnlyLists == {<<<<"*", ".", "t", "x", "t">>>>, <<<<"*", "a", "b">>>>, <<<<"*", ".", "t", "x", "t">>, <<"*", "B">>>>}

\* A checksum file is written for the files that -only keeps.
OnlySessions ==
  {[tree |-> OnlyTree, unreadable |-> {},
    todo |-> <<Run([SumRun(IdMD5, M, th) EXCEPT !.onlySpecList = only])>>] : th \in BOOLEAN, only \in OnlyLists}

\* A checksum file is written with threads, and a control signal comes
\* while the process runs.
CtrlSessions ==
  {[tree |-> FlatTree, unreadable |-> {},
    todo |-> <<[op |-> "run", a |-> SumRun(IdMD5, M, TRUE), signal |-> "pending"]>>]}

\* A directory with a file and an empty directory beside it, and one with a
\* file in a directory and a file after it.
EmptyDirTree == Dir(<<"D">>, <<File(<<"B">>, <<2>>), Dir(<<"e">>, <<>>)>>)

FullDirTree == Dir(<<"D">>, <<Dir(<<"e">>, <<File(<<"c">>, <<3>>)>>), File(<<"f">>, <<2>>)>>)

\* FindFirstFile can fail on the directory e: the same run is made twice, the
\* files it wrote removed in between, or a run with threads is made once.
UnlistedSessions ==
  {[tree |-> t, unreadable |-> {<<"D", BS, "e">>},
    todo |-> <<Run([a EXCEPT !.bSkipError = skip]), Clean, Run([a EXCEPT !.bSkipError = skip])>>] :
     t \in {EmptyDirTree, FullDirTree}, skip \in BOOLEAN,
     a \in {DigestRun(<<"D">>, IdMD5, <<>>, FALSE, FALSE, FALSE), DigestRun(<<"D">>, IdMD5, <<>>, TRUE, FALSE, FALSE),
            SumRun(IdMD5, M, FALSE)}}
  \cup
  {[tree |-> EmptyDirTree, unreadable |-> {<<"D", BS, "e">>},
    todo |-> <<Run([SumRun(IdMD5, M, TRUE) EXCEPT !.bSkipError = skip])>>] : skip \in BOOLEAN}

\* The checksum file is written with the directory typed one way and
\* verified with the directory typed the same or the other way.
CaseSessions ==
  {[tree |-> FlatTree, unreadable |-> {},
    todo |-> <<Run([SumRun(IdMD5, M, FALSE) EXCEPT !.input = x]), Run([VerifyRun(IdMD5, M, FALSE) EXCEPT !.input = y])>>] :
     x \in {<<"D">>, <<"d">>}, y \in {<<"D">>, <<"d">>}}

\* The checksum file of a directory of two files is written by a run that may
\* read the first file short, then the directory is verified against it.
MismatchSessions ==
  {[tree |-> DeepTree, unreadable |-> {<<"D", BS, "a", ".", "t", "x", "t">>},
    todo |-> <<Run(SumRun(IdMD5, M, FALSE)), Run([VerifyRun(IdMD5, M, th) EXCEPT !.bSkipError = skip])>>] :
     th \in BOOLEAN, skip \in BOOLEAN}

\* A checksum file is written, then a second run writes to the same file,
\* with or without -overwrite, with or without -threads, on one processor
\* or on several.
AppendSessions ==
  {[tree |-> FlatTree, unreadable |-> {},
    todo |-> <<Run(SumRun(IdMD5, M, FALSE)),
               Run([SumRun(IdMD5, M, th) EXCEPT !.bOverwrite = ow, !.cpuCount = IF th THEN n ELSE 1])>>] :
     th \in BOOLEAN, ow \in BOOLEAN, n \in {1, NWorkers}}

\* A checksum file is written with threads for a directory of two files,
\* neither of which can always be opened, without -skipError.
TwoUnreadableSessions ==
  {[tree |-> DeepTree, unreadable |-> {<<"D", BS, "a", ".", "t", "x", "t">>, <<"D", BS, "d", "i", "r", "1", BS, "c", ".", "t", "x", "t">>},
    todo |-> <<Run(SumRun(IdMD5, M, TRUE))>>]}

\* -threads with neither -sum nor a checksum file to verify: the digest of
\* a directory, and the digest of a file that is then verified against the
\* result file.
SingleDigestSessions ==
  {[tree |-> DeepTree, unreadable |-> {},
    todo |-> <<Run([DigestRun(<<"D">>, alg, file, h, FALSE, FALSE) EXCEPT !.bUseThreads = TRUE, !.cpuCount = NWorkers])>>] :
     alg \in {IdMD5, MD5andSHA1}, file \in {<<>>, R}, h \in BOOLEAN}
  \cup
  {[tree |-> File(<<"F">>, <<5>>), unreadable |-> {},
    todo |-> <<Run([DigestRun(<<"F">>, IdMD5, R, FALSE, FALSE, FALSE) EXCEPT !.bUseThreads = TRUE, !.cpuCount = NWorkers]),
               Run([VerifyRun(IdMD5, R, TRUE) EXCEPT !.input = <<"F">>])>>]}

\* The sessions of the specification of the whole program.
Sessions ==
  RoundtripSessions \cup TwiceSessions \cup InsideSessions \cup UnreadableSessions \cup UnlistedSessions \cup CaseSessions \cup MismatchSessions
  \cup AppendSessions \cup TwoUnreadableSessions \cup SingleDigestSessions
  \cup ResultSessions({<<IdMD5, IdMD5>>, <<MD5andSHA1, IdMD5>>, <<MD5andSHA1, IdSHA1>>, <<IdMD5, IdSHA1>>})
  \cup DigestSessions \cup OnlySessions \cup CtrlSessions
  \cup RenameSessions(DigestTrees, {<<"b", "a">>, <<"A">>}, BOOLEAN)

Init ==
  /\ \E s \in Sessions : tree = s.tree /\ unreadable = s.unreadable /\ todo = s.todo
  /\ files = NoFiles
  /\ past = <<>>
  /\ Fresh

Next ==
  \/ Main
  \/ HashDirectory
  \/ HashFile
  \/ \E w \in 1..NWorkers : ThreadPop(w)
  \/ \E w \in 1..NWorkers : ThreadSetLastError(w)
  \/ \E w \in 1..NWorkers : ThreadCheck(w)
  \/ \E w \in 1..NWorkers : ThreadWait(w)
  \/ \E w \in 1..NWorkers : ThreadRead(w)
  \/ \E w \in 1..NWorkers : ThreadFinal(w)
  \/ OutputPop
  \/ OutputCheck
  \/ OutputWait
  \/ StopThreads
  \/ StopThreadsJoin
  \/ StopThreadsEnd
  \/ CtrlHandler
  \/ ExitProcess
  \/ Report
  \/ DeleteOutputs
  \/ RenameDirectory

Spec == Init /\ [][Next]_vars

(***************************************************************************)
(* What the finished runs of a session are checked for                     *)
(***************************************************************************)

\* The run wrote checksum files: -sum without -verify.
WritesManifest(r) == r.a.bSumMode /\ ~r.a.bVerifyMode

\* The run computed one digest for its input: neither -sum nor -verify.
ComputesDigest(r) == ~r.a.bSumMode /\ ~r.a.bVerifyMode

\* The names of the output files of a run.
OutputsOf(r) == {OpenOutputFiles(r.a, GetHashes(r.a.hashAlgoToUse))[i].name : i \in 1..Len(OpenOutputFiles(r.a, GetHashes(r.a.hashAlgoToUse)))} \ {<<>>}

\* The path of a line of a checksum file: what follows the digest and the
\* two spaces.
PathOf(line) == From(line, IndexFrom(line, SP, 1) + 2)

\* The paths of the lines of a checksum file, in the order of the lines.
PathsOf(lines) == [i \in DOMAIN SelectSeq(lines, LAMBDA l : l # <<>>) |-> PathOf(SelectSeq(lines, LAMBDA l : l # <<>>)[i])]

\* C1: a checksum file written for a directory that has files (with or
\* without -sumRelativePath, with or without -threads), when the same
\* directory is then verified against it with the same algorithm, gives exit
\* code 0: no mismatch, no file missing from it, no entry of it left
\* unprocessed.
C1_RoundtripA ==
  \A k \in 1..(Len(past) - 1) :
    (/\ unreadable = {}
     /\ WritesManifest(past[k]) /\ past[k].exitCode = 0 /\ past[k].a.outputFileName # <<>>
     /\ past[k + 1].a.bVerifyMode
     /\ past[k + 1].a.verificationFileName = past[k].a.outputFileName
     /\ past[k + 1].a.hashAlgoToUse = past[k].a.hashAlgoToUse
     /\ past[k + 1].a.input = past[k].a.input
     /\ past[k + 1].tree = past[k].tree
     /\ FilePaths(InputArg(past[k].a), past[k].tree) # {})
    => past[k + 1].exitCode = 0

\* C2: the checksum file written with -threads, by threads that processed
\* every job and every line handed to them, is the same, byte for byte, as
\* the one written by the same command line without -threads.
C2_ThreadsSameFile ==
  \A j, k \in DOMAIN past :
    (/\ unreadable = {}
     /\ WritesManifest(past[j]) /\ WritesManifest(past[k])
     /\ past[j].exitCode = 0 /\ past[k].exitCode = 0
     /\ past[j].a.bUseThreads /\ ~past[k].a.bUseThreads
     /\ [past[j].a EXCEPT !.bUseThreads = FALSE, !.cpuCount = past[k].a.cpuCount] = past[k].a
     /\ past[j].tree = past[k].tree
     /\ past[j].obs.before = past[k].obs.before
     /\ ~past[j].obs.lost)
    => \A n \in OutputsOf(past[k]) : past[j].files[n] = past[k].files[n]

\* C3: two runs with the same command line on the same unchanged input, from
\* the same files, leave the same files and print the same digests, however
\* the threads are scheduled, when they processed every job and every line
\* handed to them.
C3_Determinism ==
  \A j, k \in DOMAIN past :
    (/\ unreadable = {}
     /\ past[j].a = past[k].a
     /\ past[j].tree = past[k].tree
     /\ past[j].obs.before = past[k].obs.before
     /\ ~past[j].obs.lost /\ ~past[k].obs.lost)
    => past[j].files = past[k].files /\ past[j].obs.stdout = past[k].obs.stdout /\ past[j].exitCode = past[k].exitCode

\* The run verified its input against a checksum file: ParseSumFile accepted
\* the verification file.
VerifiesManifest(r) ==
  /\ r.a.bVerifyMode
  /\ r.a.verificationFileName \in DOMAIN r.obs.before
  /\ ParseSumFile(r.obs.before[r.a.verificationFileName], TRUE, <<>>).bRet

\* C4: a verification against a checksum file that ends with exit code 0 has
\* hashed every file the walk came to that no filter excludes, and found each
\* digest equal to the one of the checksum file.
C4_VerifyExitCode ==
  \A k \in DOMAIN past :
    (VerifiesManifest(past[k]) /\ past[k].exitCode = 0) => past[k].obs.walked \subseteq past[k].obs.compared

\* The canonical order of the paths of a checksum file: more separators
\* first, then without regard to case.
CanonicalBefore(p, q) == countPathDepth(p) > countPathDepth(q) \/ (countPathDepth(p) = countPathDepth(q) /\ wcsicmp(p, q) < 0)

\* C5: every checksum file written by a -sum run, with or without -threads,
\* has its lines in the canonical order.
C5_CanonicalOrder ==
  \A k \in DOMAIN past :
    (WritesManifest(past[k]) /\ past[k].exitCode = 0 /\ past[k].obs.before = NoFiles)
    => \A n \in OutputsOf(past[k]) : \A i, j \in DOMAIN PathsOf(past[k].files[n]) :
         i < j => ~CanonicalBefore(PathsOf(past[k].files[n])[j], PathsOf(past[k].files[n])[i])

\* The identifiers of the engines of a run.
AlgorithmsOf(r) == {GetHashes(r.a.hashAlgoToUse)[i].id : i \in DOMAIN GetHashes(r.a.hashAlgoToUse)}

\* C6: a result file written for a file (one line for each algorithm, or the
\* bare digests with -quiet), when the file is then verified against it with
\* one of these algorithms, gives exit code 0.
C6_RoundtripB ==
  \A k \in 1..(Len(past) - 1) :
    (/\ ~past[k].tree.isDir
     /\ ComputesDigest(past[k]) /\ past[k].exitCode = 0 /\ past[k].a.outputFileName # <<>>
     /\ past[k + 1].a.bVerifyMode
     /\ past[k + 1].a.verificationFileName = past[k].a.outputFileName
     /\ past[k + 1].a.input = past[k].a.input
     /\ past[k + 1].tree = past[k].tree
     /\ Cardinality(AlgorithmsOf(past[k + 1])) = 1
     /\ AlgorithmsOf(past[k + 1]) \subseteq AlgorithmsOf(past[k]))
    => past[k + 1].exitCode = 0

\* The node at a place of a tree.
RECURSIVE NodeAt(_, _)
NodeAt(node, at) == IF at = <<>> THEN node ELSE NodeAt(node.kids[Head(at)], Tail(at))

\* The places of t whose directory has another name in u, u being t
\* otherwise.
RenamedPlaces(t, u) == {at \in DirPlaces(t) : u # t /\ u = Renamed(t, at, NodeAt(u, at).name)}

\* The entries beside the directory that sort before a name, letters
\* compared without case.
SortsAfter(t, at, name) == {k \in Siblings(t, at) : wcsicmp(k.name, name) < 0}

\* Two runs that computed the digest of two trees with the same command
\* line, the trees differing only in the name of one directory.
RenamedBetween(j, k) ==
  /\ ComputesDigest(past[j]) /\ past[j].a = past[k].a
  /\ past[j].exitCode = 0 /\ past[k].exitCode = 0
  /\ past[j].tree.isDir /\ past[k].tree.isDir
  /\ RenamedPlaces(past[j].tree, past[k].tree) # {}

\* C7 as the specification states it: the digests of two trees that differ
\* only in the name of one directory differ with -hashnames and are equal
\* without it, wherever the new name puts the directory among its siblings.
C7_NameHashing ==
  \A j, k \in DOMAIN past :
    RenamedBetween(j, k) => (past[j].a.bIncludeNames <=> past[j].obs.stdout # past[k].obs.stdout)

\* The renamed directory has the same entries before it, in the order of
\* compare_nocase, under both names.
InPlace(j, k) ==
  \A at \in RenamedPlaces(past[j].tree, past[k].tree) :
    SortsAfter(past[j].tree, at, NodeAt(past[j].tree, at).name) = SortsAfter(past[j].tree, at, NodeAt(past[k].tree, at).name)

\* C7 as the program keeps it: when the new name leaves the directory at its
\* place among its siblings, the digests differ with -hashnames and are equal
\* without it.
C7_NameHashingInPlace ==
  \A j, k \in DOMAIN past :
    (RenamedBetween(j, k) /\ InPlace(j, k)) => (past[j].a.bIncludeNames <=> past[j].obs.stdout # past[k].obs.stdout)

\* Two runs on trees one of which has a file in a directory that is renamed
\* without a change of its place, the digests computed without -hashnames
\* and equal.
C7_Witness ==
  \E j, k \in DOMAIN past :
    /\ j < k /\ RenamedBetween(j, k) /\ InPlace(j, k) /\ ~past[j].a.bIncludeNames
    /\ \E at \in RenamedPlaces(past[j].tree, past[k].tree) :
         NodeAt(past[j].tree, at).kids # <<>> /\ Siblings(past[j].tree, at) # {}
    /\ past[j].obs.stdout = past[k].obs.stdout

\* Two runs with -hashnames and -stripnames on trees one of which has a
\* directory renamed without a change of its place, the digests different.
C7_WitnessNames ==
  \E j, k \in DOMAIN past :
    /\ j < k /\ RenamedBetween(j, k) /\ InPlace(j, k) /\ past[j].a.bIncludeNames /\ past[j].a.bStripNames
    /\ \E at \in RenamedPlaces(past[j].tree, past[k].tree) : Siblings(past[j].tree, at) # {}
    /\ past[j].obs.stdout # past[k].obs.stdout

\* Whether -only and -exclude filter out a path.
Filtered(path, bIsFile, a) ==
  IF bIsFile /\ a.onlySpecList # <<>>
  THEN \A i \in DOMAIN a.onlySpecList : ~PathMatchSpec(path, a.onlySpecList[i])
  ELSE \E i \in DOMAIN a.excludeSpecList : PathMatchSpec(path, a.excludeSpecList[i])

\* The entries of a directory in the order of their names, letters compared
\* without case.
InNameOrder(kids) ==
  CHOOSE s \in [1..Len(kids) -> 1..Len(kids)] :
    /\ \A i, j \in 1..Len(kids) : i # j => s[i] # s[j]
    /\ \A i, j \in 1..Len(kids) : i < j => wcsicmp(kids[s[i]].name, kids[s[j]].name) <= 0

\* The contents of the files of a tree that are not filtered out, depth
\* first, the entries of each directory in the order of their names.
RECURSIVE ContentsOf(_, _, _)
ContentsOf(path, node, a) ==
  IF ~node.isDir THEN (IF Filtered(path, TRUE, a) THEN <<>> ELSE node.data)
  ELSE IF Filtered(path, FALSE, a) THEN <<>>
  ELSE Flatten([i \in 1..Len(node.kids) |->
         ContentsOf(path \o <<BS>> \o node.kids[InNameOrder(node.kids)[i]].name, node.kids[InNameOrder(node.kids)[i]], a)])

\* C8: without -hashnames, every engine of a run that computes the digest of
\* a directory is fed the contents of the files that are not filtered out,
\* depth first with the entries of each directory in the order of their names
\* without regard to case, and the digest printed is the digest of these
\* bytes: that of the empty input for a tree without files. The run is one
\* in which FindFirstFile, CreateFileW and ReadFile did not fail.
C8_FedBytes ==
  \A k \in DOMAIN past :
    (/\ ComputesDigest(past[k]) /\ ~past[k].a.bIncludeNames /\ past[k].tree.isDir /\ past[k].exitCode = 0
     /\ past[k].obs.unlisted = {} /\ past[k].obs.unopened = {} /\ past[k].obs.short = {})
    => /\ Len(past[k].fed) = Len(GetHashes(past[k].a.hashAlgoToUse))
       /\ Len(past[k].obs.stdout) = Len(past[k].fed)
       /\ \A i \in DOMAIN past[k].fed :
            /\ past[k].fed[i] = ContentsOf(InputArg(past[k].a), past[k].tree, past[k].a)
            /\ past[k].obs.stdout[i] = ToHex(Final(Update(GetHashes(past[k].a.hashAlgoToUse)[i], ContentsOf(InputArg(past[k].a), past[k].tree, past[k].a))), past[k].a.bLowerCase)

\* A run of two engines on a directory whose entries are not enumerated in
\* the order of their names, and that has a file in a directory and a file
\* beside it.
C8_Witness ==
  \E k \in DOMAIN past :
    /\ ComputesDigest(past[k]) /\ ~past[k].a.bIncludeNames /\ past[k].exitCode = 0
    /\ Len(past[k].fed) = 2 /\ Len(past[k].fed[1]) = 2 /\ past[k].fed[2] = past[k].fed[1]
    /\ Len(past[k].tree.kids) = 2
    /\ past[k].tree.kids[1].isDir /\ ~past[k].tree.kids[2].isDir
    /\ InNameOrder(past[k].tree.kids) # <<1, 2>>

\* A run without files to read, whose engine printed the digest of no byte.
C8_WitnessEmpty ==
  \E k \in DOMAIN past :
    /\ ComputesDigest(past[k]) /\ ~past[k].a.bIncludeNames /\ past[k].exitCode = 0 /\ past[k].tree.isDir
    /\ past[k].tree.kids # <<>>
    /\ past[k].fed = <<<<>>>>
    /\ past[k].obs.stdout = <<ToHex(Final(GetHash(past[k].a.hashAlgoToUse)), FALSE)>>

\* The verification file of the run holds digests of another length than
\* that of the algorithm of the run: as a checksum file, else as a result
\* file by the digest that stands for the input.
LengthDiffers(r) ==
  /\ r.a.bVerifyMode
  /\ Len(GetHashes(r.a.hashAlgoToUse)) = 1
  /\ r.a.verificationFileName \in DOMAIN r.obs.before
  /\ IF ParseSumFile(r.obs.before[r.a.verificationFileName], TRUE, <<>>).bRet
     THEN \E n \in DOMAIN ParseSumFile(r.obs.before[r.a.verificationFileName], TRUE, <<>>).digestList :
            Len(ParseSumFile(r.obs.before[r.a.verificationFileName], TRUE, <<>>).digestList[n].m_digest) # GetHashSize(GetHashes(r.a.hashAlgoToUse)[1])
     ELSE /\ ParseResultFile(r.obs.before[r.a.verificationFileName]).bRet
          /\ ResultDigest(ParseResultFile(r.obs.before[r.a.verificationFileName]), GetFileName(r.a.input), GetHashSize(GetHashes(r.a.hashAlgoToUse)[1])) # <<>>
          /\ Len(ResultDigest(ParseResultFile(r.obs.before[r.a.verificationFileName]), GetFileName(r.a.input), GetHashSize(GetHashes(r.a.hashAlgoToUse)[1]))) # GetHashSize(GetHashes(r.a.hashAlgoToUse)[1])

\* C9: a verification against a file whose digests have another length than
\* that of the algorithm ends with a non-zero exit code, before StartThreads
\* and before HashFile is called or a file of the input is opened.
C9_HashLengthGuard ==
  \A k \in DOMAIN past :
    LengthDiffers(past[k])
    => past[k].exitCode # 0 /\ ~past[k].obs.started /\ past[k].obs.handed = {} /\ past[k].obs.opened = {}

\* A verification with -threads of a directory with files against a checksum
\* file of another digest length has ended.
C9_Witness ==
  \E k \in DOMAIN past :
    /\ LengthDiffers(past[k]) /\ past[k].exitCode = -4
    /\ past[k].a.bUseThreads /\ past[k].a.cpuCount > 1
    /\ past[k].tree.isDir /\ FilePaths(InputArg(past[k].a), past[k].tree) # {}
    /\ ParseSumFile(past[k].obs.before[past[k].a.verificationFileName], TRUE, <<>>).bRet

\* A verification of a file against a result file of another digest length
\* has ended.
C9_WitnessResultFile ==
  \E k \in DOMAIN past :
    /\ LengthDiffers(past[k]) /\ past[k].exitCode = -4
    /\ ~past[k].tree.isDir
    /\ ~ParseSumFile(past[k].obs.before[past[k].a.verificationFileName], TRUE, <<>>).bRet

MatchingOnly(r) ==
  {p \in FilePaths(InputArg(r.a), r.tree) : \E i \in DOMAIN r.a.onlySpecList : PathMatchSpec(p, r.a.onlySpecList[i])}

\* C12: a run with -only that ends with exit code 0 has descended into every
\* directory, and the files that contribute are those that match a pattern
\* of -only: they are the paths of the lines of each checksum file, and
\* their contents are the bytes of the one digest.
C12_OnlyScope ==
  \A k \in DOMAIN past :
    (past[k].a.onlySpecList # <<>> /\ past[k].exitCode = 0 /\ past[k].tree.isDir)
    => /\ WritesManifest(past[k]) =>
            \A n \in OutputsOf(past[k]) : Range(PathsOf(past[k].files[n])) = MatchingOnly(past[k])
       /\ (ComputesDigest(past[k]) /\ ~past[k].a.bIncludeNames) =>
            \A i \in DOMAIN past[k].fed : past[k].fed[i] = ContentsOf(InputArg(past[k].a), past[k].tree, past[k].a)

(***************************************************************************)
(* The comparison of SortSumFile on pairs of keys                          *)
(***************************************************************************)

\* Keys a std::map<wstring, HashResultEntry> can hold together: the map
\* tells capitals from small letters.
OrderKeys ==
  {<<"a", "b">>, <<"A", "B">>, <<"A", "b">>, <<"a", "c">>, <<"D", BS, "a", "b">>, <<"D", BS, "A", "B">>,
   <<"D", BS, "a", "c">>, <<"a", "b", BS, "c">>, <<"A", "B", BS, "c">>, <<"D", BS, "a", "b", BS, "c">>}

\* The state before the comparison is applied to two keys of a map.
InitOrder ==
  /\ \E a \in OrderKeys : \E b \in OrderKeys \ {a} : todo = <<[op |-> "compare", a |-> a, b |-> b]>>
  /\ tree = Dir(<<"D">>, <<>>) /\ unreadable = {} /\ files = NoFiles /\ past = <<>>
  /\ Fresh

\* The lambda of SortSumFile applied to the two keys, in both directions.
CompareKeys ==
  /\ todo # <<>> /\ Head(todo).op = "compare"
  /\ past' = Append(past, [a |-> Head(todo).a, b |-> Head(todo).b,
                           ab |-> SumFileLess(Head(todo).a, Head(todo).b),
                           ba |-> SumFileLess(Head(todo).b, Head(todo).a)])
  /\ todo' = Tail(todo)
  /\ UNCHANGED <<tree, unreadable, files, args, pc, dwError, bSumMode, digestsList, skippedLines, verifyDigest, pHashes, heap, walk, outputFiles, g_bMismatchFound, g_bFatalError, g_bStopThreads, g_bStopOutputThread, g_threadsCount, g_inputDirPath, g_bSumRelativePath, g_jobsList, g_outputsList, threads, outputThread, events, obs>>

SpecOrder == InitOrder /\ [][CompareKeys]_vars

\* C11: of two distinct keys of a checksum file, exactly one precedes the
\* other under the comparison SortSumFile sorts with, also when the two
\* differ only in the case of their letters.
C11_StrictTotalOrder ==
  \A k \in DOMAIN past : past[k].a # past[k].b => (past[k].ab # past[k].ba)

(***************************************************************************)
(* The argument loop of _tmain                                             *)
(***************************************************************************)

\* The largest number of arguments after argv[1].
MaxArgs == 4

OptT == <<"-", "t">>

OptSum == <<"-", "s", "u", "m">>

OptQuiet == <<"-", "q", "u", "i", "e", "t">>

OptExclude == <<"-", "e", "x", "c", "l", "u", "d", "e">>

OptOnly == <<"-", "o", "n", "l", "y">>

\* The arguments of the model: five switches, an algorithm and a pattern.
ArgTokens == {OptT, OptSum, OptQuiet, OptExclude, OptOnly, IdMD5, <<"*", ".", "t", "x", "t">>}

\* Hash::IsHashIdCombination: every part between commas is an identifier,
\* and no comma ends the text.
RECURSIVE IsHashIdCombinationFrom(_, _)
IsHashIdCombinationFrom(strHashId, pos) ==
  LET Part(pos2) ==
        IF ~IsHashId(SubSeq(strHashId, pos, pos2 - 1)) THEN FALSE
        ELSE IF pos2 = Len(strHashId) + 1 THEN TRUE
        ELSE IF pos2 + 1 = Len(strHashId) + 1 THEN FALSE
        ELSE IsHashIdCombinationFrom(strHashId, pos2 + 1)
      Find(c) == Part(IF c = 0 THEN Len(strHashId) + 1 ELSE c)
  IN IF pos = Len(strHashId) + 1 THEN TRUE ELSE Find(IndexFrom(strHashId, ",", pos))

IsHashIdCombination(szHashId) == IsHashIdCombinationFrom(szHashId, 1)

\* What the loop has set before it reads an argument; code is the value
\* _tmain returns from inside the loop, 0 while it goes on.
NoArguments ==
  [code |-> 0, outputFileName |-> <<>>, bSumMode |-> FALSE, bQuiet |-> FALSE, hashAlgoToUse |-> IdBlake3,
   onlySpecified |-> FALSE, excludeSpecified |-> FALSE, onlySpecList |-> <<>>, excludeSpecList |-> <<>>]

\* A test that never rejects: the -only branch without its look at
\* excludeSpecified.
NeverRejected(st) == FALSE

\* if (excludeSpecified) in the -only branch
OnlyRejected(st) == st.excludeSpecified

\* if (onlySpecified) in the -exclude branch
ExcludeRejected(st) == st.onlySpecified

\* for (int i = 2; i < argc; i++) over argv, argv[1] being the first element:
\* the branches of -t, -sum, -quiet, -exclude, -only and of the algorithm,
\* and the last one, "not recognized".
RECURSIVE ParseArguments(_, _, _)
ParseArguments(argv, i, st) ==
  LET Failed == [st EXCEPT !.code = 1]
      Missing == i + 1 > Len(argv)
  IN IF i > Len(argv) THEN st
     ELSE IF argv[i] = OptT
     THEN (IF Missing THEN Failed ELSE ParseArguments(argv, i + 2, [st EXCEPT !.outputFileName = argv[i + 1]]))
     ELSE IF argv[i] = OptQuiet THEN ParseArguments(argv, i + 1, [st EXCEPT !.bQuiet = TRUE])
     ELSE IF argv[i] = OptSum THEN ParseArguments(argv, i + 1, [st EXCEPT !.bSumMode = TRUE])
     ELSE IF argv[i] = OptExclude
     THEN (IF ExcludeRejected(st) \/ Missing THEN Failed
           ELSE ParseArguments(argv, i + 2, [st EXCEPT !.excludeSpecified = TRUE, !.excludeSpecList = Append(@, argv[i + 1])]))
     ELSE IF argv[i] = OptOnly
     THEN (IF OnlyRejected(st) \/ Missing THEN Failed
           ELSE ParseArguments(argv, i + 2, [st EXCEPT !.onlySpecified = TRUE, !.onlySpecList = Append(@, argv[i + 1])]))
     ELSE IF IsHashIdCombination(argv[i]) THEN ParseArguments(argv, i + 1, [st EXCEPT !.hashAlgoToUse = argv[i]])
     ELSE Failed

\* The command lines: DirHash.exe D followed by at most MaxArgs arguments.
RECURSIVE ArgLists(_)
ArgLists(n) == IF n = 0 THEN {<<>>} ELSE ArgLists(n - 1) \cup {Append(l, t) : l \in {x \in ArgLists(n - 1) : Len(x) = n - 1}, t \in ArgTokens}

InitArgs ==
  /\ \E l \in ArgLists(MaxArgs) : todo = <<[op |-> "parse", argv |-> <<<<"D">>>> \o l]>>
  /\ tree = Dir(<<"D">>, <<>>) /\ unreadable = {} /\ files = NoFiles /\ past = <<>>
  /\ Fresh

\* _tmain reads its arguments.
ReadArguments ==
  /\ todo # <<>> /\ Head(todo).op = "parse"
  /\ past' = Append(past, [argv |-> Head(todo).argv, parsed |-> ParseArguments(Head(todo).argv, 2, NoArguments)])
  /\ todo' = Tail(todo)
  /\ UNCHANGED <<tree, unreadable, files, args, pc, dwError, bSumMode, digestsList, skippedLines, verifyDigest, pHashes, heap, walk, outputFiles, g_bMismatchFound, g_bFatalError, g_bStopThreads, g_bStopOutputThread, g_threadsCount, g_inputDirPath, g_bSumRelativePath, g_jobsList, g_outputsList, threads, outputThread, events, obs>>

SpecArgs == InitArgs /\ [][ReadArguments]_vars

\* The places of a command line, from the second argument on, that hold a
\* switch and not the value of the switch before: -t, -exclude and -only
\* take the argument that follows them.
RECURSIVE SwitchPlaces(_, _)
SwitchPlaces(argv, i) ==
  IF i > Len(argv) THEN {}
  ELSE {i} \cup SwitchPlaces(argv, IF argv[i] \in {OptT, OptExclude, OptOnly} THEN i + 2 ELSE i + 1)

\* The command line has this switch.
HasSwitch(argv, opt) == \E i \in SwitchPlaces(argv, 2) : argv[i] = opt

\* C13: a command line with a switch -only and a switch -exclude, in either
\* order, makes _tmain return a non-zero code from its argument loop, before
\* anything is hashed.
C13_OnlyExcludeRejected ==
  \A k \in DOMAIN past :
    (HasSwitch(past[k].argv, OptOnly) /\ HasSwitch(past[k].argv, OptExclude)) => past[k].parsed.code # 0

\* A command line with -exclude and its pattern, then -only and its pattern,
\* was refused.
C13_Witness ==
  \E k \in DOMAIN past :
    /\ Len(past[k].argv) = 5 /\ past[k].argv[2] = OptExclude /\ past[k].argv[4] = OptOnly
    /\ past[k].parsed.code = 1

(***************************************************************************)
(* Hash::GetHashes and Hash::IsHashIdCombination on algorithm lists        *)
(***************************************************************************)

\* The largest number of comma-separated parts of an algorithm list.
MaxParts == 3

\* The parts of the lists: identifiers in the case of GetID and in small
\* letters, a name of no algorithm, and the empty part.
HashParts == {IdMD5, <<"s", "h", "a", "1">>, IdBlake3, <<"X", "Y">>, <<>>}

\* The parts joined by single commas.
RECURSIVE JoinParts(_)
JoinParts(parts) == IF Len(parts) = 1 THEN parts[1] ELSE parts[1] \o <<",">> \o JoinParts(Tail(parts))

PartLists == UNION {[1..n -> HashParts] : n \in 1..MaxParts}

InitHashes ==
  /\ \E p \in PartLists : todo = <<[op |-> "ids", parts |-> p]>>
  /\ tree = Dir(<<"D">>, <<>>) /\ unreadable = {} /\ files = NoFiles /\ past = <<>>
  /\ Fresh

\* One call of each function on the same text.
ReadHashIds == /\ todo # <<>>
               /\ todo[1].op = "ids"
               /\ LET With(text) == past' = Append(past, [parts |-> todo[1].parts, text |-> text, hashes |-> GetHashes(text), accepted |-> IsHashIdCombination(text)]) IN With(JoinParts(todo[1].parts))
               /\ todo' = Tail(todo)
               /\ UNCHANGED <<tree, unreadable, files, args, pc, dwError, bSumMode, digestsList, skippedLines, verifyDigest, pHashes, heap, walk, outputFiles, g_bMismatchFound, g_bFatalError, g_bStopThreads, g_bStopOutputThread, g_threadsCount, g_inputDirPath, g_bSumRelativePath, g_jobsList, g_outputsList, threads, outputThread, events, obs>>

SpecHashes == InitHashes /\ [][ReadHashIds]_vars

\* C14: for a list of known identifiers separated by single commas GetHashes
\* returns one engine per identifier in the order given, for a list with an
\* empty part, a comma at the end or an unknown identifier it returns the
\* empty list, and IsHashIdCombination accepts exactly the texts for which
\* GetHashes returns a non-empty list.
C14_AlgorithmLists == \A k \in DOMAIN past : LET r == past[k] IN
    /\ (\A i \in DOMAIN r.parts : IsHashId(r.parts[i])) => (Len(r.hashes) = Len(r.parts) /\ \A i \in DOMAIN r.parts : r.hashes[i] = GetHash(r.parts[i]))
    /\ (\E i \in DOMAIN r.parts : ~IsHashId(r.parts[i])) => r.hashes = <<>>
    /\ r.accepted <=> (r.hashes # <<>>)

(***************************************************************************)
(* The exit codes of _tmain                                                *)
(***************************************************************************)

\* The digest of the bytes of a file by the algorithm of a run.
DigestOfData(alg, data) == Final(Update(GetHashes(alg)[1], data))

\* The files of a tree with the digests of their bytes.
RECURSIVE FileDigests(_, _, _)
FileDigests(path, node, alg) ==
  IF ~node.isDir THEN {<<path, DigestOfData(alg, node.data)>>}
  ELSE UNION {FileDigests(AppendName(path, node.kids[i].name), node.kids[i], alg) : i \in DOMAIN node.kids}

\* Checksum files beside FlatTree: the one DirHash D MD5 -sum writes, one
\* with another digest for the file, one with a line more for a file that
\* is not there, and a file that is no checksum file.
ExitFiles ==
  (<<"g">> :> <<SumLine(DigestOfData(IdMD5, <<2>>), <<"D", BS, "B">>, FALSE)>>)
  @@ (<<"w">> :> <<SumLine(DigestOfData(IdMD5, <<9>>), <<"D", BS, "B">>, FALSE)>>)
  @@ (<<"e">> :> <<SumLine(DigestOfData(IdMD5, <<2>>), <<"D", BS, "B">>, FALSE), SumLine(DigestOfData(IdMD5, <<7>>), <<"D", BS, "Z">>, FALSE)>>)
  @@ (<<"x">> :> <<<<"x">>>>)

\* Runs on FlatTree that end each in its own way: a verification that
\* succeeds, an unknown algorithm, an input that is not there, a digest that
\* differs, a verification file that cannot be parsed, digests of another
\* length, an entry of the checksum file whose file is not there, a
\* checksum file written and a digest computed with -hashnames.
ExitRuns ==
  {[r EXCEPT !.bSkipError = skip] :
     r \in {VerifyRun(IdMD5, <<"g">>, FALSE),
            VerifyRun(<<"X", "Y">>, <<"g">>, FALSE),
            [VerifyRun(IdMD5, <<"g">>, FALSE) EXCEPT !.input = <<"Z">>],
            VerifyRun(IdMD5, <<"w">>, FALSE),
            VerifyRun(IdMD5, <<"x">>, FALSE),
            VerifyRun(IdMD5, <<"n">>, FALSE),
            VerifyRun(IdSHA1, <<"g">>, FALSE),
            VerifyRun(IdMD5, <<"e">>, FALSE),
            SumRun(IdMD5, <<"n">>, FALSE),
            DigestRun(<<"D">>, IdMD5, <<>>, TRUE, FALSE, FALSE)},
     skip \in BOOLEAN}

InitExit ==
  /\ \E x \in ExitRuns : \E y \in ExitRuns \ {x} : todo = <<Run(x), Run(y)>>
  /\ tree = FlatTree /\ unreadable = {} /\ files = ExitFiles /\ past = <<>>
  /\ Fresh

NextExit == Main \/ HashDirectory \/ HashFile \/ Report

SpecExit == InitExit /\ [][NextExit]_vars

\* The kind of end the inputs of a run call for, by the order in which
\* _tmain comes to them.
ExitKind(r) ==
  LET Verified(sum, digests) ==
        LET wrong == \E x \in digests : x[1] \in DOMAIN sum.digestList /\ sum.digestList[x[1]].m_digest # x[2]
            missing == \E n \in DOMAIN sum.digestList : \A x \in digests : x[1] # n
            unlisted == \E x \in digests : x[1] \notin DOMAIN sum.digestList
        IN IF unlisted THEN "unlisted" ELSE IF wrong /\ missing THEN "both" ELSE IF wrong THEN "mismatch" ELSE IF missing THEN "entry" ELSE "success"
      Read(lines) ==
        IF ParseSumFile(lines, TRUE, InputArg(r.a) \o <<BS>>).bRet
        THEN (IF LengthDiffers(r) THEN "length" ELSE Verified(ParseSumFile(lines, TRUE, InputArg(r.a) \o <<BS>>), FileDigests(InputArg(r.a), r.tree, r.a.hashAlgoToUse)))
        ELSE IF ParseResultFile(lines).bRet THEN "result" ELSE "parse"
  IN IF GetHashes(r.a.hashAlgoToUse) = <<>> THEN "argument"
     ELSE IF InputArg(r.a) # r.tree.name THEN "input"
     ELSE IF ~r.a.bVerifyMode THEN "success"
     ELSE IF Len(GetHashes(r.a.hashAlgoToUse)) > 1 \/ ~r.tree.isDir THEN "other"
     ELSE Read(IF r.a.verificationFileName \in DOMAIN r.obs.before THEN r.obs.before[r.a.verificationFileName] ELSE <<>>)

\* The kinds of failure of which each has an exit code of its own.
FailureKinds == {"argument", "input", "mismatch", "parse", "length", "entry"}

\* C15: a successful run returns 0, and argument error, missing input,
\* verification mismatch, failure to parse the verification file,
\* hash-length mismatch and missing entry of the checksum file each return a
\* code that is not 0 and that no other of these kinds returns.
C15_ExitCodes ==
  /\ \A k \in DOMAIN past : /\ ExitKind(past[k]) = "success" => past[k].exitCode = 0
                            /\ ExitKind(past[k]) \in FailureKinds => past[k].exitCode # 0
  /\ \A j \in DOMAIN past : \A k \in DOMAIN past :
       (ExitKind(past[j]) \in FailureKinds /\ ExitKind(past[k]) \in FailureKinds /\ ExitKind(past[j]) # ExitKind(past[k]))
         => past[j].exitCode # past[k].exitCode

\* The exit code of the runs of each kind.
ExitCodesByKind == \A k \in DOMAIN past :
  /\ ExitKind(past[k]) = "success" => past[k].exitCode = 0
  /\ ExitKind(past[k]) = "argument" => past[k].exitCode = 1
  /\ ExitKind(past[k]) = "input" => past[k].exitCode = -2
  /\ ExitKind(past[k]) = "parse" => past[k].exitCode = -3
  /\ ExitKind(past[k]) = "length" => past[k].exitCode = -4
  /\ ExitKind(past[k]) = "mismatch" => past[k].exitCode = -7
  /\ ExitKind(past[k]) = "entry" => past[k].exitCode = -7

(***************************************************************************)
(* The threads and their lists                                             *)
(***************************************************************************)

\* C16: in a run with threads and without fatal error, once StopThreads has
\* waited for every ThreadCode thread to return, g_jobsList is empty: every
\* job that was pushed has been popped by a thread and processed.
C16_JobsDrained == (pc = "joinOutput" /\ ~g_bFatalError) => g_jobsList = <<>>

\* C17: in a run with threads and without fatal error, once StopThreads has
\* waited for the output thread to return, g_outputsList is empty: every
\* entry that was pushed has been popped by the output thread and written.
C17_OutputsDrained == (pc = "joinOutput" /\ outputThread = "exit" /\ ~g_bFatalError) => g_outputsList = <<>>

\* The engines at these addresses are the same after the step as before.
EnginesKept(addrs) == \A i \in DOMAIN addrs : addrs[i] \in DOMAIN heap' /\ heap'[addrs[i]] = heap[addrs[i]]

\* C18: the engines of a job are the job's own: while the job waits in
\* g_jobsList no thread updates or finalises them, and while a ThreadCode
\* thread holds the job only the steps of that thread do.
C18_JobEnginesOwned ==
  [][/\ \A i \in DOMAIN g_jobsList : (\E k \in DOMAIN g_jobsList' : g_jobsList'[k] = g_jobsList[i]) => EnginesKept(g_jobsList[i].pHashes)
     /\ \A w \in 1..NWorkers : (threads[w].pc \in {"read", "final"} /\ threads'[w] = threads[w]) => EnginesKept(threads[w].job.pHashes)]_vars

\* The ThreadCode threads and the output thread are running.
PoolRunning == g_threadsCount > 0 /\ pc \in {"walk", "stop", "join", "joinOutput"}

\* A step of a ThreadCode thread: the thread moves on, or it pops a job.
ThreadCodeStep == pc' = pc /\ walk' = walk /\ (threads' # threads \/ Len(g_jobsList') < Len(g_jobsList))

\* A step of OutputThreadCode that pops an entry.
OutputThreadStep == pc' = pc /\ walk' = walk /\ threads' = threads /\ outputThread = "pop" /\ g_outputsList # <<>> /\ g_outputsList' = Tail(g_outputsList)

\* C19: while the threads run no ThreadCode thread writes to an output file
\* or a shadow file, in no branch: no step of a ThreadCode thread changes a
\* file.
C19_NoWorkerWrite == [][(PoolRunning /\ ThreadCodeStep) => files' = files]_vars

\* While the threads run every step that changes a file is a step of
\* OutputThreadCode: neither a ThreadCode thread nor the walk writes.
OnlyOutputThreadWrites == [][(PoolRunning /\ files' # files) => OutputThreadStep]_vars

\* C20: within a process g_bMismatchFound and g_bFatalError, once true, stay
\* true: no step of a running process takes either flag from true to false.
C20_FlagsMonotonic ==
  [][(pc # "idle" /\ pc' # "idle") => ((g_bFatalError => g_bFatalError') /\ (g_bMismatchFound => g_bMismatchFound'))]_vars

\* C21: g_jobsList and g_outputsList are released at most once, when every
\* ThreadCode thread and the output thread have returned, and no thread
\* pops from, pushes to or frees a list that has been released.
C21_ListsReleasedOnce ==
  obs.freed >= 1 => /\ obs.freed = 1
                    /\ ~obs.afterFree
                    /\ \A w \in 1..NWorkers : threads[w].pc = "exit"
                    /\ outputThread \in {"exit", "none"}

(***************************************************************************)
(* The end of the threads                                                  *)
(***************************************************************************)

\* Runs with threads: a checksum file is written, with -hashnames or
\* without; a checksum file is written and then verified with threads while
\* a file cannot always be opened.
ShutdownSessions ==
  {[tree |-> x[1], unreadable |-> {}, todo |-> <<Run([SumRun(IdMD5, M, TRUE) EXCEPT !.bIncludeNames = x[2]])>>] :
     x \in {<<DeepTree, FALSE>>, <<FlatTree, FALSE>>, <<FlatTree, TRUE>>}}
  \cup
  {[tree |-> FlatTree, unreadable |-> {<<"D", BS, "B">>},
    todo |-> <<Run(SumRun(IdMD5, M, FALSE)), Run([VerifyRun(IdMD5, M, TRUE) EXCEPT !.bSkipError = skip])>>] :
     skip \in BOOLEAN}

InitShutdown ==
  /\ \E s \in ShutdownSessions : tree = s.tree /\ unreadable = s.unreadable /\ todo = s.todo
  /\ files = NoFiles /\ past = <<>>
  /\ Fresh

\* The walk and StopThreads.
WalkStep == HashDirectory \/ HashFile \/ StopThreads \/ StopThreadsJoin \/ StopThreadsEnd

\* The steps of one ThreadCode thread.
ThreadCodeOf(w) == ThreadPop(w) \/ ThreadSetLastError(w) \/ ThreadCheck(w) \/ ThreadWait(w) \/ ThreadRead(w) \/ ThreadFinal(w)

\* The steps of OutputThreadCode.
OutputThreadCodeStep == OutputPop \/ OutputCheck \/ OutputWait

NextShutdown == Main \/ Report \/ WalkStep \/ (\E w \in 1..NWorkers : ThreadCodeOf(w)) \/ OutputThreadCodeStep

\* A step of a thread of the process between the start of the walk and the
\* return of StopThreads.
RunningStep == WalkStep \/ (\E w \in 1..NWorkers : ThreadCodeOf(w)) \/ OutputThreadCodeStep

\* While a thread of the process can take such a step, one of them takes one
\* in the end: the scheduler lets the threads run, and every read of a file
\* ends.
SpecShutdown == InitShutdown /\ [][NextShutdown]_vars /\ WF_vars(RunningStep)

\* C22: once _tmain has called StopThreads every ThreadCode thread and the
\* output thread return and StopThreads returns; no ThreadCode thread stays
\* in its wait while g_jobsList holds a job, and the output thread does not
\* stay in its wait while g_outputsList holds an entry.
C22_ShutdownTerminates ==
  /\ (pc = "join") ~> (pc = "report")
  /\ \A w \in 1..NWorkers : (threads[w].pc = "wait" /\ g_jobsList # <<>>) ~> (threads[w].pc # "wait")
  /\ (outputThread = "wait" /\ g_outputsList # <<>>) ~> (outputThread # "wait")

\* StopThreads waits for the threads while one of them is in its wait and
\* a job is in g_jobsList.
C22_Witness == pc = "join" /\ g_jobsList # <<>> /\ \E w \in 1..NWorkers : threads[w].pc = "wait"

(***************************************************************************)
(* After CtrlHandler                                                       *)
(***************************************************************************)

\* CtrlHandler has set g_bFatalError and both stop events in this process.
Cancelled == pc # "idle" /\ g_threadsCount > 0 /\ todo # <<>> /\ "signal" \in DOMAIN Head(todo) /\ Head(todo).signal = "handled"

\* A ThreadCode thread pops a job.
JobPopped == pc' = pc /\ walk' = walk /\ g_jobsList # <<>> /\ g_jobsList' = Tail(g_jobsList)

\* C23: once CtrlHandler has set g_bFatalError and signalled both stop
\* events, no ThreadCode thread pops a job and the output thread writes no
\* entry.
C23_Cancellation == [][Cancelled => (~JobPopped /\ ~OutputThreadStep)]_vars

\* The same while g_bFatalError is still set.
CancellationWhileFatal == [][(Cancelled /\ g_bFatalError) => (~JobPopped /\ ~OutputThreadStep)]_vars

(***************************************************************************)
(* m_processed                                                             *)
(***************************************************************************)

\* An entry of digestsList is marked in this step.
Marked == \E n \in DOMAIN digestsList : n \in DOMAIN digestsList' /\ ~digestsList[n].m_processed /\ digestsList'[n].m_processed

\* C24 as the spec has it: while the threads run, every step that marks an
\* entry of the checksum file as processed is a step of the output thread.
C24_SerialiserMarks == [][(PoolRunning /\ Marked) => OutputThreadStep]_vars

\* C24: during a verification only the walk writes m_processed: HashFile
\* marks the entry of a file when it comes to the file, and no step of a
\* ThreadCode thread or of the output thread changes digestsList.
C24_DriverMarks == [][(PoolRunning /\ pc' = pc /\ walk' = walk) => digestsList' = digestsList]_vars

\* A verification with threads has marked an entry while the job of its
\* file waits in g_jobsList.
C24_Witness ==
  /\ PoolRunning /\ args.bVerifyMode
  /\ \E i \in DOMAIN g_jobsList : g_jobsList[i].filePath \in DOMAIN digestsList /\ digestsList[g_jobsList[i].filePath].m_processed

(***************************************************************************)
(* A file that does not open                                               *)
(***************************************************************************)

\* C25: a run without -skipError in which CreateFileW failed on a file, in
\* HashFile or in ThreadCode, ends with an exit code that is not 0; with
\* -skipError the walk hands every file to HashFile, and in checksum mode
\* g_bMismatchFound is set from the failure on.
C25_OpenFailure ==
  /\ \A k \in DOMAIN past :
       past[k].obs.unopened # {} =>
         IF past[k].a.bSkipError THEN past[k].obs.walked \subseteq past[k].obs.handed ELSE past[k].exitCode # 0
  /\ (pc # "idle" /\ obs.unopened # {} /\ args.bSkipError /\ bSumMode) => g_bMismatchFound

\* The same for the failures in HashFile alone: those of runs in which no
\* ThreadCode thread failed to open a file.
OpenFailureInHashFile ==
  /\ \A k \in DOMAIN past :
       (past[k].obs.unopened # {} /\ (past[k].obs.started => past[k].a.bSkipError)) =>
         IF past[k].a.bSkipError THEN past[k].obs.walked \subseteq past[k].obs.handed ELSE past[k].exitCode # 0
  /\ (pc # "idle" /\ obs.unopened # {} /\ args.bSkipError /\ bSumMode) => g_bMismatchFound

(***************************************************************************)
(* A read that ends early                                                  *)
(***************************************************************************)

\* The lines a run left in its output files.
LinesOf(r) == UNION {{r.files[name][i] : i \in DOMAIN r.files[name]} : name \in OutputsOf(r) \cap DOMAIN r.files}

\* C26: of a file whose read loop ended before all its bytes were read, a
\* run that writes a checksum file writes no line, and a verification
\* reports no comparison of its digest with the one expected.
C26_ShortRead ==
  \A k \in DOMAIN past : \A p \in past[k].obs.short :
    /\ WritesManifest(past[k]) => \A l \in LinesOf(past[k]) : \A n \in 1..Len(p) : PathOf(l) # From(p, n)
    /\ past[k].a.bVerifyMode => MismatchMsg(p) \notin LinesOf(past[k])

(***************************************************************************)
(* A directory that cannot be listed                                       *)
(***************************************************************************)

\* Two runs of a session with the same command line on EmptyDirTree, the
\* first with a failure of FindFirstFile and the second without.
UnlistedThenListed(j, k) ==
  /\ past[j].a = past[k].a /\ past[j].tree = EmptyDirTree /\ past[k].tree = EmptyDirTree
  /\ past[j].obs.before = past[k].obs.before
  /\ past[j].obs.unlisted # {} /\ past[k].obs.unlisted = {}

\* C27: with -skipError, a run in which FindFirstFile failed on a directory
\* prints the digests, writes the files and gives the exit code of the same
\* run on a tree where that directory is listed and empty, with -hashnames
\* or without; without -skipError the run ends with an exit code that is not
\* 0 and hands no file after the directory to HashFile.
C27_UnlistedDirectory ==
  /\ \A j \in DOMAIN past : \A k \in DOMAIN past :
       (UnlistedThenListed(j, k) /\ past[j].a.bSkipError) =>
         /\ past[j].obs.stdout = past[k].obs.stdout
         /\ past[j].files = past[k].files
         /\ past[j].exitCode = past[k].exitCode
  /\ \A k \in DOMAIN past :
       (past[k].obs.unlisted # {} /\ ~past[k].a.bSkipError) => past[k].exitCode # 0

\* The same for the runs without -hashnames and without threads.
UnlistedDirectoryWithoutNames ==
  /\ \A j \in DOMAIN past : \A k \in DOMAIN past :
       (UnlistedThenListed(j, k) /\ past[j].a.bSkipError /\ ~past[j].a.bIncludeNames /\ ~past[j].obs.started) =>
         /\ past[j].obs.stdout = past[k].obs.stdout
         /\ past[j].files = past[k].files
         /\ past[j].exitCode = past[k].exitCode
  /\ \A k \in DOMAIN past :
       (past[k].obs.unlisted # {} /\ ~past[k].a.bSkipError) => past[k].exitCode # 0

(***************************************************************************)
(* The shadow files                                                        *)
(***************************************************************************)

\* The name of a shadow file.
IsShadow(name) == Len(name) > Len(ShadowSuffix) /\ From(name, Len(name) - Len(ShadowSuffix) + 1) = ShadowSuffix

ShadowsIn(fs) == {name \in DOMAIN fs : IsShadow(name)}

\* C28: there is a shadow file only while a run that writes checksum files
\* with threads is in progress, and a run that wrote checksum files and
\* ended with exit code 0 has left none.
C28_ShadowLifecycle ==
  /\ ShadowsIn(files) # {} => (pc # "idle" /\ bSumMode /\ ~args.bVerifyMode /\ g_threadsCount > 0)
  /\ \A k \in DOMAIN past : (WritesManifest(past[k]) /\ past[k].exitCode = 0) => ShadowsIn(past[k].files) = {}

\* The second half alone, for the runs in which StartThreads created threads
\* and the output thread wrote a line to the shadow file.
NoShadowLeft ==
  \A k \in DOMAIN past :
    (WritesManifest(past[k]) /\ past[k].exitCode = 0 /\ past[k].obs.started /\ past[k].a.outputFileName \in DOMAIN past[k].files
       /\ past[k].obs.before = NoFiles /\ past[k].files[past[k].a.outputFileName] # <<>>)
    => ShadowsIn(past[k].files) = {}

(***************************************************************************)
(* Hash::Clone on an engine that was fed                                   *)
(***************************************************************************)

MaxFed == 2

\* The byte sequences fed to an engine.
FedBytes == UNION {[1..n -> {1, 2}] : n \in 0..MaxFed}

InitClone ==
  /\ \E id \in {IdMD5, IdSHA1, IdBlake3} : \E a \in FedBytes : \E b \in FedBytes :
       todo = <<[op |-> "feed", id |-> id, a |-> a, b |-> b]>>
  /\ tree = Dir(<<"D">>, <<>>) /\ unreadable = {} /\ files = NoFiles /\ past = <<>>
  /\ Fresh

\* An engine is made and fed the bytes a.
FeedEngine ==
  /\ todo # <<>> /\ todo[1].op = "feed"
  /\ heap' = <<Update(GetHash(todo[1].id), todo[1].a)>>
  /\ todo' = <<[todo[1] EXCEPT !.op = "clone"]>>
  /\ UNCHANGED <<tree, unreadable, files, past, args, pc, dwError, bSumMode, digestsList, skippedLines, verifyDigest, pHashes, walk, outputFiles, g_bMismatchFound, g_bFatalError, g_bStopThreads, g_bStopOutputThread, g_threadsCount, g_inputDirPath, g_bSumRelativePath, g_jobsList, g_outputsList, threads, outputThread, events, obs>>

\* CloneHashes on the engine, as HashFile does: the clone is a new object.
CloneEngine ==
  /\ todo # <<>> /\ todo[1].op = "clone"
  /\ heap' = heap \o CloneHashes(heap)
  /\ todo' = <<[todo[1] EXCEPT !.op = "update"]>>
  /\ UNCHANGED <<tree, unreadable, files, past, args, pc, dwError, bSumMode, digestsList, skippedLines, verifyDigest, pHashes, walk, outputFiles, g_bMismatchFound, g_bFatalError, g_bStopThreads, g_bStopOutputThread, g_threadsCount, g_inputDirPath, g_bSumRelativePath, g_jobsList, g_outputsList, threads, outputThread, events, obs>>

\* UpdateHashes on the clone with the bytes b; what Final gives for each
\* engine is recorded, and what it gives for the first after b as well.
UpdateClone ==
  /\ todo # <<>> /\ todo[1].op = "update"
  /\ heap' = UpdateAt(heap, <<2>>, todo[1].b)
  /\ past' = Append(past, [id |-> todo[1].id, a |-> todo[1].a, b |-> todo[1].b,
                           before |-> heap[1], source |-> heap'[1], clone |-> Final(heap'[2]),
                           sourceThen |-> Final(Update(heap'[1], todo[1].b))])
  /\ todo' = <<>>
  /\ UNCHANGED <<tree, unreadable, files, args, pc, dwError, bSumMode, digestsList, skippedLines, verifyDigest, pHashes, walk, outputFiles, g_bMismatchFound, g_bFatalError, g_bStopThreads, g_bStopOutputThread, g_threadsCount, g_inputDirPath, g_bSumRelativePath, g_jobsList, g_outputsList, threads, outputThread, events, obs>>

NextClone == FeedEngine \/ CloneEngine \/ UpdateClone

SpecClone == InitClone /\ [][NextClone]_vars

\* C29 as the spec has it: the clone of an engine, fed the bytes b, gives the
\* digest the engine itself gives when it is fed b, and feeding the clone
\* leaves the engine as it was.
C29_CloneKeepsState ==
  \A k \in DOMAIN past : past[k].clone = past[k].sourceThen /\ past[k].source = past[k].before

\* C29: the clone of an engine is a new engine of the same algorithm that
\* was fed nothing, whatever the engine was fed: fed the bytes b it gives the
\* digest of b alone; and feeding the clone leaves the engine as it was.
C29_CloneIsNew ==
  \A k \in DOMAIN past :
    /\ past[k].clone = Final(Update(GetHash(past[k].id), past[k].b))
    /\ past[k].source = past[k].before

\* An engine that was fed some bytes was cloned, and the clone was fed bytes.
C29_Witness == \E k \in DOMAIN past : past[k].a # <<>> /\ past[k].b # <<>> /\ past[k].clone # past[k].sourceThen

(***************************************************************************)
(* ParseSumFile on checksum files with lines it does not take              *)
(***************************************************************************)

MaxLines == 3

\* A digest of n bytes, each of them b.
DigestOf(n, b) == [i \in 1..n |-> b]

\* What a line is made from: a digest, a name, and the way it is written.
\* "good" is the digest in hexadecimal, two spaces, the name; "nospace" has no
\* space, "nothex" a letter that is no hexadecimal digit, "odd" a digit too
\* few, "nopath" nothing after the spaces, "empty" nothing at all.
LineParts ==
  {[kind |-> "good", digest |-> DigestOf(16, 1), name |-> <<"a", "b">>],
   [kind |-> "good", digest |-> DigestOf(16, 2), name |-> <<"a", "b">>],
   [kind |-> "good", digest |-> DigestOf(16, 2), name |-> <<"c", "/", "d">>],
   [kind |-> "good", digest |-> DigestOf(20, 3), name |-> <<"a", "b">>],
   [kind |-> "good", digest |-> DigestOf(2, 4), name |-> <<"c", "/", "d">>],
   [kind |-> "nothex", digest |-> DigestOf(16, 5), name |-> <<"a", "b">>],
   [kind |-> "odd", digest |-> DigestOf(16, 6), name |-> <<"a", "b">>],
   [kind |-> "nospace", digest |-> DigestOf(16, 7), name |-> <<"a", "b">>],
   [kind |-> "nopath", digest |-> DigestOf(16, 8), name |-> <<>>],
   [kind |-> "empty", digest |-> <<>>, name |-> <<>>]}

\* The text of a line.
LineText(p) ==
  IF p.kind = "empty" THEN <<>>
  ELSE IF p.kind = "good" THEN ToHex(p.digest, FALSE) \o <<SP, SP>> \o p.name
  ELSE IF p.kind = "nothex" THEN <<"z">> \o Tail(ToHex(p.digest, FALSE)) \o <<SP, SP>> \o p.name
  ELSE IF p.kind = "odd" THEN Tail(ToHex(p.digest, FALSE)) \o <<SP, SP>> \o p.name
  ELSE IF p.kind = "nospace" THEN ToHex(p.digest, FALSE) \o p.name
  ELSE ToHex(p.digest, FALSE) \o <<SP, SP>>

InitSum ==
  /\ \E n \in 1..MaxLines : \E parts \in [1..n -> LineParts] : todo = <<[op |-> "sum", parts |-> parts]>>
  /\ tree = Dir(<<"D">>, <<>>) /\ unreadable = {} /\ files = NoFiles /\ past = <<>>
  /\ Fresh

\* ParseSumFile on the file of these lines, as SortSumFile calls it.
ReadSumFile ==
  /\ todo # <<>> /\ todo[1].op = "sum"
  /\ \E r \in {ParseSumFile([i \in DOMAIN todo[1].parts |-> LineText(todo[1].parts[i])], FALSE, <<>>)} :
       past' = Append(past, [parts |-> todo[1].parts, bRet |-> r.bRet, digestList |-> r.digestList, skippedLines |-> r.skippedLines])
  /\ todo' = Tail(todo)
  /\ UNCHANGED <<tree, unreadable, files, args, pc, dwError, bSumMode, digestsList, skippedLines, verifyDigest, pHashes, heap, walk, outputFiles, g_bMismatchFound, g_bFatalError, g_bStopThreads, g_bStopOutputThread, g_threadsCount, g_inputDirPath, g_bSumRelativePath, g_jobsList, g_outputsList, threads, outputThread, events, obs>>

SpecSum == InitSum /\ [][ReadSumFile]_vars

\* A line that is well formed and has a digest of one of the sizes.
WellFormed(p) == p.kind = "good" /\ Len(p.digest) \in {16, 20, 32, 48, 64}

\* The first well formed line and the size of its digest.
FirstTaken(parts) == CHOOSE i \in DOMAIN parts : WellFormed(parts[i]) /\ \A j \in 1..(i - 1) : ~WellFormed(parts[j])

\* The lines that are to be in the table.
Taken(parts) == {i \in DOMAIN parts : WellFormed(parts[i]) /\ Len(parts[i].digest) = Len(parts[FirstTaken(parts)].digest)}

C31_LastWins ==
  \A k \in DOMAIN past : past[k].bRet =>
    /\ \A i \in Taken(past[k].parts) : \A j \in Taken(past[k].parts) :
         (i < j /\ past[k].parts[i].name = past[k].parts[j].name /\ \A n \in Taken(past[k].parts) : n > j => past[k].parts[n].name # past[k].parts[j].name)
         => /\ ReplaceSlash(past[k].parts[j].name) \in DOMAIN past[k].digestList
            /\ past[k].digestList[ReplaceSlash(past[k].parts[j].name)].m_digest = past[k].parts[j].digest
    /\ \A name \in DOMAIN past[k].digestList : ~past[k].digestList[name].m_processed
    /\ Cardinality(DOMAIN past[k].digestList) = Cardinality({past[k].parts[i].name : i \in Taken(past[k].parts)})

\* A file whose first and last line give the same name with two digests of
\* the same size, and the table holds the second.
C31_Witness ==
  \E k \in DOMAIN past :
    /\ past[k].bRet /\ Len(past[k].parts) >= 2
    /\ past[k].parts[1].kind = "good" /\ past[k].parts[Len(past[k].parts)].kind = "good"
    /\ past[k].parts[1].name = past[k].parts[Len(past[k].parts)].name
    /\ past[k].parts[1].digest = DigestOf(16, 1) /\ past[k].parts[Len(past[k].parts)].digest = DigestOf(16, 2)
    /\ past[k].digestList[past[k].parts[1].name].m_digest = DigestOf(16, 2)

(***************************************************************************)
(* The case of the letters of the input directory                          *)
(***************************************************************************)

\* A checksum file written without threads and without -sumRelativePath for
\* a directory, then the same directory verified against it without threads,
\* the directory typed with the same letters whatever their case.
SameRootTyped(k) ==
  /\ k + 1 \in DOMAIN past /\ unreadable = {}
  /\ WritesManifest(past[k]) /\ past[k].exitCode = 0 /\ ~past[k].a.bSumRelativePath /\ ~past[k].a.bUseThreads
  /\ past[k].obs.before = NoFiles
  /\ VerifiesManifest(past[k + 1]) /\ ~past[k + 1].a.bUseThreads
  /\ past[k + 1].a.verificationFileName = past[k].a.outputFileName
  /\ past[k + 1].a.hashAlgoToUse = past[k].a.hashAlgoToUse
  /\ past[k + 1].tree = past[k].tree
  /\ wcsicmp(past[k].a.input, past[k + 1].a.input) = 0
  /\ FilePaths(InputArg(past[k].a), past[k].tree) # {}

\* C32: the verification finds every file of the walk in the checksum file,
\* compares it equal and gives exit code 0, in whatever case the letters of
\* the directory were typed for the one run and for the other.
C32_CaseOfRoot ==
  \A k \in DOMAIN past : SameRootTyped(k) =>
    (past[k + 1].exitCode = 0 /\ past[k + 1].obs.walked \subseteq past[k + 1].obs.compared)

\* The same when the directory is typed with the same letters in the same
\* case.
SameCaseOfRoot ==
  \A k \in DOMAIN past : (SameRootTyped(k) /\ past[k].a.input = past[k + 1].a.input) =>
    (past[k + 1].exitCode = 0 /\ past[k + 1].obs.walked \subseteq past[k + 1].obs.compared)

(***************************************************************************)
(* StartThreads on the processor groups of a machine                       *)
(***************************************************************************)

\* ARRAYSIZE(g_hThreads)
g_hThreadsSize == 256

MaxGroups == 3

\* The numbers of processors a group can have.
GroupSizes == {1, 2, 3, 64, 130}

\* The sum of the first n numbers of a sequence.
RECURSIVE SumTo(_, _)
SumTo(counts, n) == IF n = 0 THEN 0 ELSE counts[n] + SumTo(counts, n - 1)

\* size_t GetCpuCount(WORD* pGroupCount) where GetActiveProcessorCount(j) is
\* counts[j + 1].
GetCpuCount(counts) == [cpuCount |-> SumTo(counts, Len(counts)), groupCount |-> Len(counts)]

\* The group StartThreads binds the thread ThreadCount to: the first j with
\* totalProcessors >= ThreadCount, where totalProcessors is the number of
\* processors of the groups 0..j; 0 when there is one group.
GroupOfThread(counts, ThreadCount) ==
  IF Len(counts) <= 1 THEN 0
  ELSE (CHOOSE j \in 1..Len(counts) : SumTo(counts, j) >= ThreadCount /\ \A i \in 1..(j - 1) : SumTo(counts, i) < ThreadCount) - 1

\* StartThreads: the number of threads it creates and the group of each.
StartThreads(counts) ==
  LET Started(cpuCount) ==
        IF cpuCount <= 1 THEN [g_threadsCount |-> 0, ThreadProcessorGroups |-> <<>>]
        ELSE [g_threadsCount |-> cpuCount,
              ThreadProcessorGroups |-> [t \in 1..cpuCount |-> GroupOfThread(counts, t - 1)]]
  IN Started(IF GetCpuCount(counts).cpuCount > g_hThreadsSize THEN g_hThreadsSize ELSE GetCpuCount(counts).cpuCount)

InitThreads ==
  /\ \E n \in 1..MaxGroups : \E counts \in [1..n -> GroupSizes] : todo = <<[op |-> "threads", counts |-> counts]>>
  /\ tree = Dir(<<"D">>, <<>>) /\ unreadable = {} /\ files = NoFiles /\ past = <<>>
  /\ Fresh

\* One call of StartThreads on a machine with these groups.
CallStartThreads ==
  /\ todo # <<>> /\ todo[1].op = "threads"
  /\ \E r \in {StartThreads(todo[1].counts)} :
       past' = Append(past, [counts |-> todo[1].counts, g_threadsCount |-> r.g_threadsCount, ThreadProcessorGroups |-> r.ThreadProcessorGroups])
  /\ todo' = Tail(todo)
  /\ UNCHANGED <<tree, unreadable, files, args, pc, dwError, bSumMode, digestsList, skippedLines, verifyDigest, pHashes, heap, walk, outputFiles, g_bMismatchFound, g_bFatalError, g_bStopThreads, g_bStopOutputThread, g_threadsCount, g_inputDirPath, g_bSumRelativePath, g_jobsList, g_outputsList, threads, outputThread, events, obs>>

SpecThreads == InitThreads /\ [][CallStartThreads]_vars

\* The number of threads StartThreads bound to the group j.
ThreadsOfGroup(r, j) == Cardinality({t \in DOMAIN r.ThreadProcessorGroups : r.ThreadProcessorGroups[t] = j})

\* The number of threads is the number of processors, at most 256, and each
\* thread is bound to a group of the machine.
ThreadsCounted(r) ==
  /\ r.g_threadsCount = (IF SumTo(r.counts, Len(r.counts)) > 256 THEN 256 ELSE SumTo(r.counts, Len(r.counts)))
  /\ Len(r.ThreadProcessorGroups) = r.g_threadsCount
  /\ \A t \in DOMAIN r.ThreadProcessorGroups : r.ThreadProcessorGroups[t] \in 0..(Len(r.counts) - 1)

\* C33: on a machine with more than one processor StartThreads creates as
\* many threads as there are processors, at most 256, each bound to one
\* group; when there are several groups and at most 256 processors, each
\* group has as many threads as it has processors.
C33_ThreadsPerGroup ==
  \A k \in DOMAIN past : SumTo(past[k].counts, Len(past[k].counts)) > 1 =>
    /\ ThreadsCounted(past[k])
    /\ (Len(past[k].counts) > 1 /\ SumTo(past[k].counts, Len(past[k].counts)) <= 256) =>
         \A j \in 1..Len(past[k].counts) : ThreadsOfGroup(past[k], j - 1) = past[k].counts[j]

\* The first half alone.
ThreadsCountedAlways ==
  \A k \in DOMAIN past : SumTo(past[k].counts, Len(past[k].counts)) > 1 => ThreadsCounted(past[k])

(***************************************************************************)
(* After a digest that differs                                             *)
(***************************************************************************)

\* A verification against a checksum file in which ProcessFile found the
\* digest of a file different from the expected one, and in which nothing
\* else went wrong: every file of the walk is in the checksum file, and
\* CreateFileW and FindFirstFile did not fail.
MismatchOnly(r) ==
  /\ VerifiesManifest(r) /\ r.obs.mismatched # {}
  /\ r.obs.unopened = {} /\ r.obs.unlisted = {}
  /\ r.obs.walked \subseteq DOMAIN ParseSumFile(r.obs.before[r.a.verificationFileName], TRUE, InputArg(r.a) \o <<BS>>).digestList

\* C34: in a verification, with threads or without, after ProcessFile found
\* the digest of a file different from the expected one g_bMismatchFound is
\* true, every file of the walk is hashed and compared, and the exit code is
\* not 0.
C34_MismatchGoesOn ==
  /\ \A k \in DOMAIN past : MismatchOnly(past[k]) =>
       /\ past[k].exitCode # 0
       /\ past[k].obs.walked \subseteq (past[k].obs.compared \cup past[k].obs.mismatched)
  /\ (pc # "idle" /\ obs.mismatched # {}) => g_bMismatchFound

\* The same for the runs in which StopThreads freed no entry of a list.
C34_NothingLost ==
  /\ \A k \in DOMAIN past : (MismatchOnly(past[k]) /\ ~past[k].obs.lost) =>
       /\ past[k].exitCode # 0
       /\ past[k].obs.walked \subseteq (past[k].obs.compared \cup past[k].obs.mismatched)
  /\ (pc # "idle" /\ obs.mismatched # {}) => g_bMismatchFound

\* ---------------------------------------------------------------------
\* A run that appends to a file that has content
\* ---------------------------------------------------------------------

\* The run k wrote a checksum file without -overwrite, and the file had
\* lines before the run.
Appends(k, out) ==
  /\ WritesManifest(past[k]) /\ ~past[k].a.bOverwrite /\ past[k].a.outputFileName # <<>>
  /\ out \in OutputsOf(past[k])
  /\ out \in DOMAIN past[k].obs.before /\ past[k].obs.before[out] # <<>>

\* The file keeps the lines it had, an empty line follows them, and what the
\* run wrote follows the empty line.
KeptThenNewLine(before, after) ==
  /\ Len(after) > Len(before)
  /\ SubSeq(after, 1, Len(before)) = before
  /\ after[Len(before) + 1] = <<>>

Assigning == {w \in 1..NWorkers : threads[w].pc = "write"}

\* C36: g_szLastErrorMsg is never being assigned by two threads at once: of
\* two ThreadCode threads whose files do not open in a run without
\* -skipError, one has ended its assignment before the other begins.
C36_OneWriter == Cardinality(Assigning) <= 1

\* No ThreadCode thread is assigning g_szLastErrorMsg when _tmain reads it:
\* StopThreads has waited for the threads by then.
NoWriterAtReport == (pc \notin {"walk", "stop", "join", "joinOutput"}) => Assigning = {}


\* ---------------------------------------------------------------------
\* -threads when one digest is computed
\* ---------------------------------------------------------------------

\* No ThreadCode thread and no OutputThreadCode thread exists, and nothing
\* is in the list of the jobs or in the list of the outputs.
NoPool ==
  /\ g_threadsCount = 0
  /\ \A w \in 1..NWorkers : threads[w].pc = "none"
  /\ outputThread = "none"
  /\ g_jobsList = <<>> /\ g_outputsList = <<>>

\* A step of the walk of _tmain: HashDirectory or HashFile on the entry in
\* front of the walk.
DriverStep == pc = "walk" /\ walk # <<>> /\ (walk' = Tail(walk) \/ walk' = <<>>)

\* C37: in a run with neither -sum nor a checksum file to verify no thread
\* is started and no job is queued, whatever -threads says, and while the
\* input is walked the engines change only in the steps of the walk of
\* _tmain, entry after entry.
C37_SingleThreaded ==
  /\ [](~bSumMode => NoPool)
  /\ [][(~bSumMode /\ pc = "walk" /\ heap' # heap) => DriverStep]_vars

\* A run with -threads on a machine of several processors has fed a file to
\* its engines and is not in checksum mode.
C37_Witness ==
  /\ pc = "walk" /\ ~bSumMode
  /\ args.bUseThreads /\ args.cpuCount > 1
  /\ \E i \in DOMAIN heap : heap[i].fed # <<>>


====
